---- MODULE Spec2Model ----
(***************************************************************************)
(* Flashcards-Generator: cleaning, chunking, card generation with the      *)
(* parsing of LLM responses, summary generation and combination, the       *)
(* pipeline and the Deck.                                                  *)
(* Text is a sequence of one-character strings; Python exceptions are      *)
(* explicit results ("ok" fields, exception names).                        *)
(***************************************************************************)
EXTENDS Integers, Sequences, FiniteSets, TLC

VARIABLES
    \* _parse_llm_response
    respInfo,      \* how the model text was produced (see ResponseText)
    response,      \* the raw model text
    parsePc,       \* "input" before the call, "done" after it
    parseResult,   \* [raised, cards, stage, data]: what the call returned
    \* validate_cards
    cardsIn,       \* the list of cards passed in
    validPc,       \* "input" before the call, "done" after it
    cardsOut,      \* the list returned
    \* FlashcardGenerator: generate_cards_from_chunks / generate_cards_batch
    promptFile,    \* prompts/qa_generation.md: "present", "missing", "unreadable"
    promptTemplate,\* self.prompt_template, set by __init__
    genMode,       \* "sequential" or "batch"
    chunkCount,    \* len(chunks); the chunks are 1..chunkCount
    maxConcurrent, \* max_concurrent of generate_cards_batch (0 when sequential)
    rateLimited,   \* rate_limit_delay > 0
    taskPc,        \* per chunk: "pending", "sleeping", "inflight", "done", "failed"
    taskOutcome,   \* per chunk: how its chat_completion call ended
    taskResult,    \* per chunk: what generate_cards_from_chunk returned or raised
    semaphore,     \* the value of the asyncio.Semaphore
    requested,     \* the chunks for which chat_completion was called
    genPc,         \* "running", "done" (returned) or "raised"
    genResult,     \* the list of cards returned
    \* SummaryCombiner.hybrid_combine
    sumInfo,       \* how the list of summaries was produced (see SummariesOf)
    summaries,     \* the summaries argument
    useAi,         \* the use_ai argument
    combPc,        \* "input", "group" / "direct" (an LLM call is awaited), "done"
    validSummaries,\* valid_summaries of hybrid_combine
    workSummaries, \* the summaries of the current hierarchical round
    intermediates, \* intermediate_summaries of that round
    groupStart,    \* where the group being combined starts in workSummaries
    prompts,       \* the prompts sent to the LLM so far, in order
    strategy,      \* "sentinel", "verbatim", "direct", "hierarchical", "concatenate"
    aiResult,      \* what ai_combine returned
    combResult,    \* what hybrid_combine returned
    \* SummaryGenerator.generate_summaries_from_chunks
    sumChunkCount, \* len(chunks); the chunks are 1..sumChunkCount
    sumPc,         \* "start", "batch" (gather is awaited), "pause", "done"
    batchStart,    \* i of the batch loop, counted from 1
    sumTaskPc,     \* per chunk: "pending", "inflight", "done"
    sumOutcome,    \* per chunk: how its chat_completion call ended
    genSummaries,  \* the list summaries, returned at the end
    pauses,        \* how often asyncio.sleep(1) ran between batches
    \* TextCleaner.clean_text, applied twice
    cleanInfo,     \* how the input text was produced (see CleanTextOf)
    cleanInput,    \* the text argument
    cleanSettings, \* [urls, email, whitespace]: settings.text_processing
    cleanPc,       \* "input", "once", "twice"
    cleanedOnce,   \* clean_text(text)
    cleanedTwice,  \* clean_text(clean_text(text))
    \* FlashcardPipeline.generate_flashcards
    pipeFile,      \* prompts/qa_generation.md: "present" or "missing"
    pipeChunkCount,\* len(chunks) as process_text returned them
    pipePc,        \* "input", "chunks" (the loop), "done"
    pipeNext,      \* the chunk the loop handles next
    allCards,      \* all_cards
    deck,          \* the cards of the Deck returned
    \* Deck
    deckCards,     \* Deck.cards
    deckSourceIds, \* Deck.source_ids
    \* FlashcardPipeline.process_text on a Source
    procInfo,      \* how the loaded text was produced
    loadedContent, \* source.content as load_source set it
    sourceContent, \* source.content now
    procSettings,  \* [max, min, overlap]: the three sizes of the chunker
    procRuns,      \* how many process_text calls have returned or raised
    procChunks,    \* [raised, chunks]: what the last call raised or returned
    \* TextChunker.chunk_text
    textInfo,      \* how the input text was produced (see TextOf)
    chunkInput,    \* the text argument
    chunkMethod,   \* "paragraph", "sentence" or "word"
    maxChunkSize,  \* settings.text_processing.max_chunk_size
    minChunkSize,  \* settings.text_processing.min_chunk_size
    chunkOverlap,  \* settings.text_processing.chunk_overlap
    sourceId,      \* the source_id argument: "none" (the default) or an id
    chunkPc,       \* "input" before the call, "done" after it
    primaryChunks, \* raw_chunks as the method split them
    rawChunks,     \* raw_chunks after add_overlap
    chunkResult    \* [raised, chunks]: what the call raised or returned

parseVars == <<respInfo, response, parsePc, parseResult>>
validVars == <<cardsIn, validPc, cardsOut>>

genVars ==
    <<promptFile, promptTemplate, genMode, chunkCount, maxConcurrent, rateLimited,
      taskPc, taskOutcome, taskResult, semaphore, requested, genPc, genResult>>

chunkVars ==
    <<textInfo, chunkInput, chunkMethod, maxChunkSize, minChunkSize, chunkOverlap,
      sourceId, chunkPc, primaryChunks, rawChunks, chunkResult>>

combVars ==
    <<sumInfo, summaries, useAi, combPc, validSummaries, workSummaries,
      intermediates, groupStart, prompts, strategy, aiResult, combResult>>

sumGenVars ==
    <<sumChunkCount, sumPc, batchStart, sumTaskPc, sumOutcome, genSummaries, pauses>>

cleanVars ==
    <<cleanInfo, cleanInput, cleanSettings, cleanPc, cleanedOnce, cleanedTwice>>

pipeVars == <<pipeFile, pipeChunkCount, pipePc, pipeNext, allCards, deck>>

deckVars == <<deckCards, deckSourceIds>>

procVars ==
    <<procInfo, loadedContent, sourceContent, procSettings, procRuns, procChunks>>

vars ==
    <<parseVars, validVars, genVars, chunkVars, combVars, sumGenVars, cleanVars,
      pipeVars, deckVars, procVars>>

\* the components a specification does not exercise stay idle
ParseIdle ==
    respInfo = <<>> /\ response = <<>> /\ parsePc = "idle" /\ parseResult = <<>>

ValidIdle == cardsIn = <<>> /\ validPc = "idle" /\ cardsOut = <<>>

GenIdle ==
    /\ promptFile = "" /\ promptTemplate = <<>> /\ genMode = "" /\ chunkCount = 0
    /\ maxConcurrent = 0 /\ rateLimited = FALSE /\ taskPc = <<>>
    /\ taskOutcome = <<>> /\ taskResult = <<>> /\ semaphore = 0
    /\ requested = {} /\ genPc = "idle" /\ genResult = <<>>

ChunkIdle ==
    /\ textInfo = <<>> /\ chunkInput = <<>> /\ chunkMethod = "" /\ maxChunkSize = 0
    /\ minChunkSize = 0 /\ chunkOverlap = 0 /\ sourceId = "" /\ chunkPc = "idle"
    /\ primaryChunks = <<>> /\ rawChunks = <<>> /\ chunkResult = <<>>

CombIdle ==
    /\ sumInfo = <<>> /\ summaries = <<>> /\ useAi = FALSE /\ combPc = "idle"
    /\ validSummaries = <<>> /\ workSummaries = <<>> /\ intermediates = <<>>
    /\ groupStart = 0 /\ prompts = <<>> /\ strategy = "" /\ aiResult = <<>>
    /\ combResult = <<>>

SumGenIdle ==
    /\ sumChunkCount = 0 /\ sumPc = "idle" /\ batchStart = 0 /\ sumTaskPc = <<>>
    /\ sumOutcome = <<>> /\ genSummaries = <<>> /\ pauses = 0

CleanIdle ==
    /\ cleanInfo = <<>> /\ cleanInput = <<>> /\ cleanSettings = <<>>
    /\ cleanPc = "idle" /\ cleanedOnce = <<>> /\ cleanedTwice = <<>>

PipeIdle ==
    /\ pipeFile = "" /\ pipeChunkCount = 0 /\ pipePc = "idle" /\ pipeNext = 0
    /\ allCards = <<>> /\ deck = <<>>

DeckIdle == deckCards = <<>> /\ deckSourceIds = <<>>

ProcIdle ==
    /\ procInfo = <<>> /\ loadedContent = <<>> /\ sourceContent = <<>>
    /\ procSettings = <<>> /\ procRuns = 0 /\ procChunks = <<>>

\* the summary generator, the cleaner, the pipeline and the deck
LaterIdle == SumGenIdle /\ CleanIdle /\ PipeIdle /\ DeckIdle /\ ProcIdle

laterVars == <<sumGenVars, cleanVars, pipeVars, deckVars, procVars>>

\* the components other than the generator, the parser and the validator
RestIdle == ChunkIdle /\ CombIdle /\ LaterIdle

restVars == <<chunkVars, combVars, laterVars>>

\* the components up to the combiner
EarlierIdle == ParseIdle /\ ValidIdle /\ GenIdle /\ ChunkIdle /\ CombIdle

earlierVars == <<parseVars, validVars, genVars, chunkVars, combVars>>

(***************************************************************************)
(* Character and string helpers (Python str methods).                      *)
(***************************************************************************)
\* str.strip()/str.split() and regex \s: the whitespace characters of the alphabet
Whitespace == {" ", "\n", "\t", "\r"}

Digits == {"0", "1", "2", "3", "4", "5", "6", "7", "8", "9"}

LowerLetters ==
    {"a", "b", "c", "d", "e", "f", "g", "h", "i", "j", "k", "l", "m",
     "n", "o", "p", "q", "r", "s", "t", "u", "v", "w", "x", "y", "z"}

UpperLetters ==
    {"A", "B", "C", "D", "E", "F", "G", "H", "I", "J", "K", "L", "M",
     "N", "O", "P", "Q", "R", "S", "T", "U", "V", "W", "X", "Y", "Z"}

\* s[i:] with a 1-based index
Drop(s, i) == IF i > Len(s) THEN <<>> ELSE SubSeq(s, i, Len(s))

\* s[:n]
Take(s, n) == IF n >= Len(s) THEN s ELSE SubSeq(s, 1, n)

\* first index >= i of a character outside set ws (Len(s)+1 if none)
RECURSIVE SkipSet(_, _, _)
SkipSet(s, i, ws) ==
    IF i > Len(s) \/ s[i] \notin ws THEN i ELSE SkipSet(s, i + 1, ws)

\* last index <= i of a character outside set ws (0 if none)
RECURSIVE SkipSetBack(_, _, _)
SkipSetBack(s, i, ws) ==
    IF i < 1 \/ s[i] \notin ws THEN i ELSE SkipSetBack(s, i - 1, ws)

\* str.strip()
Strip(s) ==
    LET a == SkipSet(s, 1, Whitespace)
        b == SkipSetBack(s, Len(s), Whitespace)
    IN IF a > b THEN <<>> ELSE SubSeq(s, a, b)

\* the least element of a non-empty set of indices
MinOf(S) == CHOOSE j \in S : \A k \in S : j <= k

\* the greatest element of a non-empty set of indices
MaxOf(S) == CHOOSE j \in S : \A k \in S : j >= k

\* first index >= i of a character of set cs, 0 when there is none
FindSet(s, cs, i) ==
    LET hits == {j \in i..Len(s) : s[j] \in cs} IN
    IF hits = {} THEN 0 ELSE MinOf(hits)

\* str.find(c) for a single character, 1-based; 0 when absent (Python's -1)
FindChar(s, c, i) == FindSet(s, {c}, i)

\* str.rfind(c) for a single character, 1-based; 0 when absent
RFindChar(s, c, i) ==
    LET hits == {j \in 1..i : s[j] = c} IN
    IF hits = {} THEN 0 ELSE MaxOf(hits)

\* does sub occur in s at index i
MatchAt(s, sub, i) ==
    /\ i >= 1
    /\ i + Len(sub) - 1 <= Len(s)
    /\ \A k \in 1..Len(sub) : s[i + k - 1] = sub[k]

\* str.startswith
StartsWith(s, sub) == MatchAt(s, sub, 1)

\* Python's `sub in s` for strings
Contains(s, sub) == \E i \in 1..(Len(s) + 1) : MatchAt(s, sub, i)

\* str.find(sub, start): 1-based index of the first occurrence at or after
\* start, 0 when there is none
FindFrom(s, sub, i) ==
    LET hits == {j \in i..(Len(s) + 1) : MatchAt(s, sub, j)} IN
    IF hits = {} THEN 0 ELSE MinOf(hits)

\* str.lower() on one character
LowerChar(c) ==
    CASE c = "A" -> "a" [] c = "B" -> "b" [] c = "C" -> "c" [] c = "D" -> "d"
      [] c = "E" -> "e" [] c = "F" -> "f" [] c = "G" -> "g" [] c = "H" -> "h"
      [] c = "I" -> "i" [] c = "J" -> "j" [] c = "K" -> "k" [] c = "L" -> "l"
      [] c = "M" -> "m" [] c = "N" -> "n" [] c = "O" -> "o" [] c = "P" -> "p"
      [] c = "Q" -> "q" [] c = "R" -> "r" [] c = "S" -> "s" [] c = "T" -> "t"
      [] c = "U" -> "u" [] c = "V" -> "v" [] c = "W" -> "w" [] c = "X" -> "x"
      [] c = "Y" -> "y" [] c = "Z" -> "z" [] OTHER -> c

\* str.lower()
Lower(s) == [i \in 1..Len(s) |-> LowerChar(s[i])]

(***************************************************************************)
(* json.loads on the alphabet of the model.  A value is [t, v]: t is the   *)
(* Python type, v the payload (characters, number, items, key/value pairs).*)
(***************************************************************************)
JsonWs == {" ", "\t", "\n", "\r"}

StrV(s)  == [t |-> "str", v |-> s]
NumV(n)  == [t |-> "num", v |-> n]
ListV(l) == [t |-> "list", v |-> l]
DictV(d) == [t |-> "dict", v |-> d]
NullV    == [t |-> "null", v |-> <<>>]
TrueV    == [t |-> "true", v |-> <<>>]
FalseV   == [t |-> "false", v |-> <<>>]

JFail == [ok |-> FALSE, val |-> NullV, pos |-> 0]
JOk(val, pos) == [ok |-> TRUE, val |-> val, pos |-> pos]

DigitVal(c) ==
    CASE c = "0" -> 0 [] c = "1" -> 1 [] c = "2" -> 2 [] c = "3" -> 3
      [] c = "4" -> 4 [] c = "5" -> 5 [] c = "6" -> 6 [] c = "7" -> 7
      [] c = "8" -> 8 [] c = "9" -> 9 [] OTHER -> 0

\* the character a backslash escape stands for
Unescape(e) ==
    CASE e = "n" -> "\n" [] e = "t" -> "\t" [] e = "r" -> "\r"
      [] e = "b" -> "<BS>" [] e = "f" -> "\f" [] OTHER -> e

\* json.decoder.scanstring (strict): j is the index after the opening quote
RECURSIVE ScanString(_, _, _)
ScanString(s, j, acc) ==
    IF j > Len(s) THEN JFail                      \* unterminated string
    ELSE IF s[j] = "\"" THEN JOk(StrV(acc), j + 1)
    ELSE IF s[j] = "\\" THEN
        IF j + 1 > Len(s) THEN JFail
        ELSE IF s[j + 1] \in {"\"", "\\", "/", "b", "f", "n", "r", "t"}
             THEN ScanString(s, j + 2, Append(acc, Unescape(s[j + 1])))
             ELSE JFail                           \* invalid \escape
    ELSE IF s[j] \in {"\n", "\t", "\r"} THEN JFail \* control character
    ELSE ScanString(s, j + 1, Append(acc, s[j]))

\* NUMBER_RE restricted to integers: (0|[1-9]\d*)
RECURSIVE ScanDigits(_, _, _)
ScanDigits(s, j, acc) ==
    IF j <= Len(s) /\ s[j] \in Digits
    THEN ScanDigits(s, j + 1, acc * 10 + DigitVal(s[j]))
    ELSE JOk(NumV(acc), j)

ScanNumber(s, i) ==
    IF s[i] = "0" THEN JOk(NumV(0), i + 1) ELSE ScanDigits(s, i, 0)

RECURSIVE ScanOnce(_, _)
RECURSIVE ScanMembers(_, _, _)
RECURSIVE ScanElements(_, _, _)

\* JSONObject: j is the index of a key's opening quote
ScanMembers(s, j, acc) ==
    LET key == ScanString(s, j + 1, <<>>) IN
    IF ~key.ok THEN JFail
    ELSE
      LET c == SkipSet(s, key.pos, JsonWs) IN
      IF c > Len(s) \/ s[c] # ":" THEN JFail
      ELSE
        LET val == ScanOnce(s, SkipSet(s, c + 1, JsonWs)) IN
        IF ~val.ok THEN JFail
        ELSE
          LET e == SkipSet(s, val.pos, JsonWs)
              pairs == Append(acc, [k |-> key.val.v, v |-> val.val])
          IN
          IF e > Len(s) THEN JFail
          ELSE IF s[e] = "}" THEN JOk(DictV(pairs), e + 1)
          ELSE IF s[e] # "," THEN JFail
          ELSE
            LET n == SkipSet(s, e + 1, JsonWs) IN
            IF n > Len(s) \/ s[n] # "\"" THEN JFail
            ELSE ScanMembers(s, n, pairs)

\* JSONArray: j is the index of the next element
ScanElements(s, j, acc) ==
    LET val == ScanOnce(s, j) IN
    IF ~val.ok THEN JFail
    ELSE
      LET e == SkipSet(s, val.pos, JsonWs)
          items == Append(acc, val.val)
      IN
      IF e > Len(s) THEN JFail
      ELSE IF s[e] = "]" THEN JOk(ListV(items), e + 1)
      ELSE IF s[e] # "," THEN JFail
      ELSE ScanElements(s, SkipSet(s, e + 1, JsonWs), items)

\* json.scanner.py_make_scanner._scan_once
ScanOnce(s, i) ==
    IF i > Len(s) THEN JFail
    ELSE IF s[i] = "\"" THEN ScanString(s, i + 1, <<>>)
    ELSE IF s[i] = "{" THEN
        LET j == SkipSet(s, i + 1, JsonWs) IN
        IF j > Len(s) THEN JFail
        ELSE IF s[j] = "}" THEN JOk(DictV(<<>>), j + 1)
        ELSE IF s[j] # "\"" THEN JFail
        ELSE ScanMembers(s, j, <<>>)
    ELSE IF s[i] = "[" THEN
        LET j == SkipSet(s, i + 1, JsonWs) IN
        IF j > Len(s) THEN JFail
        ELSE IF s[j] = "]" THEN JOk(ListV(<<>>), j + 1)
        ELSE ScanElements(s, j, <<>>)
    ELSE IF MatchAt(s, <<"n", "u", "l", "l">>, i) THEN JOk(NullV, i + 4)
    ELSE IF MatchAt(s, <<"t", "r", "u", "e">>, i) THEN JOk(TrueV, i + 4)
    ELSE IF MatchAt(s, <<"f", "a", "l", "s", "e">>, i) THEN JOk(FalseV, i + 5)
    ELSE IF s[i] \in Digits THEN ScanNumber(s, i)
    ELSE JFail

\* JSONDecoder.decode: anything but whitespace after the value is "Extra data"
CheckEnd(s, r) ==
    IF ~r.ok THEN JFail
    ELSE IF SkipSet(s, r.pos, JsonWs) # Len(s) + 1 THEN JFail
    ELSE r

\* json.loads: [ok |-> FALSE] is json.JSONDecodeError
JsonLoads(s) == CheckEnd(s, ScanOnce(s, SkipSet(s, 1, JsonWs)))

(***************************************************************************)
(* Python values as the parser uses them.                                  *)
(***************************************************************************)
NoneV == NullV

\* bool(x)
Truthy(x) ==
    CASE x.t = "str"  -> Len(x.v) > 0
      [] x.t = "num"  -> x.v # 0
      [] x.t = "list" -> Len(x.v) > 0
      [] x.t = "dict" -> Len(x.v) > 0
      [] x.t = "true" -> TRUE
      [] OTHER        -> FALSE

\* key in d, for a dict d
HasKey(d, key) == \E i \in 1..Len(d.v) : d.v[i].k = key

\* d[key] / d.get(key): json.loads keeps the last of duplicated keys
DictGet(d, key, default) ==
    IF HasKey(d, key)
    THEN d.v[CHOOSE i \in 1..Len(d.v) :
                 /\ d.v[i].k = key
                 /\ \A j \in (i + 1)..Len(d.v) : d.v[j].k # key].v
    ELSE default

\* Python's `a or b`
PyOr(a, b) == IF Truthy(a) THEN a ELSE b

(***************************************************************************)
(* Key names and enum values, as character sequences.                      *)
(***************************************************************************)
S_front      == <<"f", "r", "o", "n", "t">>
S_back       == <<"b", "a", "c", "k">>
S_chunk_id   == <<"c", "h", "u", "n", "k", "_", "i", "d">>
S_question   == <<"q", "u", "e", "s", "t", "i", "o", "n">>
S_answer     == <<"a", "n", "s", "w", "e", "r">>
S_difficulty == <<"d", "i", "f", "f", "i", "c", "u", "l", "t", "y">>
S_cards      == <<"c", "a", "r", "d", "s">>
S_flashcards == <<"f", "l", "a", "s", "h">> \o S_cards
S_easy       == <<"e", "a", "s", "y">>
S_medium     == <<"m", "e", "d", "i", "u", "m">>
S_hard       == <<"h", "a", "r", "d">>

\* a string literal "..." of a regex or of JSON text
Quoted(s) == <<"\"">> \o s \o <<"\"">>

(***************************************************************************)
(* FlashcardGenerator: the recovery ladder of _parse_llm_response.         *)
(***************************************************************************)
NoMatch == [found |-> FALSE, text |-> <<>>]

\* re.search(r'\{.*\}', text, re.DOTALL): first "{" to the last "}" after it
SearchBraces(s) ==
    LET first == FindChar(s, "{", 1)
        last  == RFindChar(s, "}", Len(s))
    IN IF first > 0 /\ last > first
       THEN [found |-> TRUE, text |-> SubSeq(s, first, last)]
       ELSE NoMatch

\* card_pattern as a list of regex items: a literal, \s*, or "[^"]*"
CardPattern ==
    << [k |-> "lit", s |-> <<"{">>], [k |-> "ws", s |-> <<>>],
       [k |-> "lit", s |-> Quoted(S_front) \o <<":">>], [k |-> "ws", s |-> <<>>],
       [k |-> "str", s |-> <<>>], [k |-> "lit", s |-> <<",">>],
       [k |-> "ws", s |-> <<>>],
       [k |-> "lit", s |-> Quoted(S_back) \o <<":">>], [k |-> "ws", s |-> <<>>],
       [k |-> "str", s |-> <<>>], [k |-> "lit", s |-> <<",">>],
       [k |-> "ws", s |-> <<>>],
       [k |-> "lit", s |-> Quoted(S_chunk_id) \o <<":">>], [k |-> "ws", s |-> <<>>],
       [k |-> "str", s |-> <<>>], [k |-> "ws", s |-> <<>>],
       [k |-> "lit", s |-> <<"}">>] >>

\* match items n.. of pat at index i of s: the index after the match, 0 if none.
\* Every item is followed by a character it cannot itself consume, so the
\* greedy match never backtracks.
RECURSIVE MatchPattern(_, _, _, _)
MatchPattern(s, i, pat, n) ==
    IF n > Len(pat) THEN i
    ELSE IF pat[n].k = "lit" THEN
        IF MatchAt(s, pat[n].s, i)
        THEN MatchPattern(s, i + Len(pat[n].s), pat, n + 1)
        ELSE 0
    ELSE IF pat[n].k = "ws" THEN
        MatchPattern(s, SkipSet(s, i, Whitespace), pat, n + 1)
    ELSE \* "[^"]*"
        IF i > Len(s) \/ s[i] # "\"" THEN 0
        ELSE LET q == FindChar(s, "\"", i + 1) IN
             IF q = 0 THEN 0 ELSE MatchPattern(s, q + 1, pat, n + 1)

\* re.findall(card_pattern, json_text, re.DOTALL): the non-overlapping matches
RECURSIVE FindAllCards(_, _, _)
FindAllCards(s, i, acc) ==
    LET b == FindChar(s, "{", i) IN    \* a match starts with "{"
    IF b = 0 THEN acc
    ELSE LET e == MatchPattern(s, b, CardPattern, 1) IN
         IF e > 0
         THEN FindAllCards(s, e, Append(acc, SubSeq(s, b, e - 1)))
         ELSE FindAllCards(s, b + 1, acc)

\* the loop of _parse_truncated_json: json.loads of each match, failures skipped
RECURSIVE LoadMatches(_, _, _)
LoadMatches(matches, n, acc) ==
    IF n > Len(matches) THEN acc
    ELSE LET r == JsonLoads(matches[n]) IN
         LoadMatches(matches, n + 1, IF r.ok THEN Append(acc, r.val) ELSE acc)

\* lines 210-214: {"cards": cards} when any card was recovered, else None
RecoveredOrNone(cards) ==
    IF Len(cards) > 0
    THEN DictV(<<[k |-> S_cards, v |-> ListV(cards)]>>)
    ELSE NoneV

\* _parse_truncated_json: {"cards": [...]} of the complete card objects, or None
ParseTruncatedJson(jsonText) ==
    RecoveredOrNone(LoadMatches(FindAllCards(jsonText, 1, <<>>), 1, <<>>))

IdentStart == LowerLetters \cup UpperLetters \cup {"_"}
IdentChars == IdentStart \cup Digits

\* re.sub(r'([{,]\s*)([a-zA-Z_][a-zA-Z0-9_]*)\s*:', r'\1"\2":', json_text)
RECURSIVE QuoteBareKeys(_, _, _)
QuoteBareKeys(s, i, acc) ==
    LET b == FindSet(s, {"{", ","}, i) IN    \* a match starts with "{" or ","
    IF b = 0 THEN acc \o Drop(s, i)
    ELSE
      LET j == SkipSet(s, b + 1, Whitespace)
          k == SkipSet(s, j + 1, IdentChars)
          m == SkipSet(s, k, Whitespace)
          hit == /\ j <= Len(s) /\ s[j] \in IdentStart
                 /\ m <= Len(s) /\ s[m] = ":"
      IN IF hit
         THEN QuoteBareKeys(s, m + 1,
                  acc \o SubSeq(s, i, j - 1) \o Quoted(SubSeq(s, j, k - 1)) \o <<":">>)
         ELSE QuoteBareKeys(s, b + 1, acc \o SubSeq(s, i, b))

\* lines 226-228: drop what precedes the first "{"
CutBeforeFirstBrace(t) ==
    IF FindChar(t, "{", 1) > 1 THEN Drop(t, FindChar(t, "{", 1)) ELSE t

\* lines 231-233: drop what follows the last "}"
CutAfterLastBrace(t) ==
    IF RFindChar(t, "}", Len(t)) > 1 THEN Take(t, RFindChar(t, "}", Len(t))) ELSE t

\* _fix_json_format
FixJsonFormat(jsonText) ==
    QuoteBareKeys(CutAfterLastBrace(CutBeforeFirstBrace(Strip(jsonText))), 1, <<>>)

(***************************************************************************)
(* Card construction (schemas.Card) and the extraction loop.               *)
(***************************************************************************)
\* Optional[DifficultyLevel]: the enum member, "None", or "invalid"
\* (pydantic ValidationError)
DifficultyLevel(x) ==
    IF x.t = "null" THEN "None"
    ELSE IF x.t # "str" THEN "invalid"
    ELSE IF x.v = S_easy THEN "easy"
    ELSE IF x.v = S_medium THEN "medium"
    ELSE IF x.v = S_hard THEN "hard"
    ELSE "invalid"

Skip(why) == [ok |-> FALSE, why |-> why,
              card |-> [front |-> <<>>, back |-> <<>>, difficulty |-> "None", chunk |-> 0]]

\* card_data.get('difficulty', 'medium')
RequestedDifficulty(cardData) == DictGet(cardData, S_difficulty, StrV(S_medium))

\* one iteration of the loop over cards_data: the Card appended, or the reason
\* the entry is skipped (a `continue`, or an exception caught by the inner
\* except)
EntryToCard(cardData, chunk) ==
    IF cardData.t # "dict" THEN Skip("AttributeError")      \* no .get
    ELSE
      LET frontText == PyOr(DictGet(cardData, S_front, NoneV),
                            DictGet(cardData, S_question, StrV(<<>>)))
          backText  == PyOr(DictGet(cardData, S_back, NoneV),
                            DictGet(cardData, S_answer, StrV(<<>>)))
          difficulty == DifficultyLevel(RequestedDifficulty(cardData))
      IN
      IF ~Truthy(frontText) \/ ~Truthy(backText) THEN Skip("missing")
      ELSE IF frontText.t # "str" \/ backText.t # "str"
           THEN Skip("AttributeError")                      \* no .strip
      ELSE IF Strip(frontText.v) = <<>> \/ Strip(backText.v) = <<>>
           THEN Skip("ValidationError")                     \* front/back validators
      ELSE IF difficulty = "invalid" THEN Skip("ValidationError")
      ELSE [ok |-> TRUE, why |-> "none",
            card |-> [front |-> Strip(frontText.v), back |-> Strip(backText.v),
                      difficulty |-> difficulty, chunk |-> chunk]]

RECURSIVE BuildCards(_, _, _, _)
BuildCards(cardsData, n, chunk, acc) ==
    IF n > Len(cardsData) THEN acc
    ELSE LET r == EntryToCard(cardsData[n], chunk) IN
         BuildCards(cardsData, n + 1, chunk,
                    IF r.ok THEN Append(acc, r.card) ELSE acc)

\* `key in data`: "TypeError" when data is not a container
KeyIn(data, key) ==
    CASE data.t = "dict" -> IF HasKey(data, key) THEN "yes" ELSE "no"
      [] data.t = "list" ->
            IF \E i \in 1..Len(data.v) : data.v[i].t = "str" /\ data.v[i].v = key
            THEN "yes" ELSE "no"
      [] data.t = "str"  -> IF Contains(data.v, key) THEN "yes" ELSE "no"
      [] OTHER           -> "TypeError"

Returned(cards) == [exc |-> "none", cards |-> cards]
Raised(exc) == [exc |-> exc, cards |-> <<>>]

\* lines 140-186: from the parsed data to the list of cards
ExtractCards(data, chunk) ==
    LET inCards == KeyIn(data, S_cards)
        inFlash == KeyIn(data, S_flashcards)
        key == IF inCards = "yes" THEN S_cards ELSE S_flashcards
    IN
    IF inCards = "TypeError" THEN Raised("TypeError")
    ELSE IF inCards = "no" /\ inFlash = "no" THEN Returned(<<>>)
    ELSE IF data.t # "dict" THEN Raised("TypeError")   \* data['cards'] on a list or str
    ELSE LET cardsData == DictGet(data, key, NoneV) IN
         IF cardsData.t # "list" THEN Returned(<<>>)
         ELSE Returned(BuildCards(cardsData.v, 1, chunk, <<>>))

Loaded(stage, data) == [stage |-> stage, data |-> data]

\* line 138: json.loads of the repaired text; stage 0 is "json.loads raised"
StageRepair(repaired) ==
    IF repaired.ok THEN Loaded(3, repaired.val) ELSE Loaded(0, NoneV)

\* lines 134-137: the recovered cards, else the repair
StageTruncated(jsonText, recovered) ==
    IF Truthy(recovered) THEN Loaded(2, recovered)
    ELSE StageRepair(JsonLoads(FixJsonFormat(jsonText)))

\* the mutant of the stage order: the recovery runs before the direct parse
StageDirectRecoversFirst(jsonText, direct) ==
    IF Truthy(ParseTruncatedJson(jsonText))
    THEN Loaded(2, ParseTruncatedJson(jsonText))
    ELSE IF direct.ok THEN Loaded(1, direct.val)
    ELSE StageRepair(JsonLoads(FixJsonFormat(jsonText)))

\* lines 130-134: the direct parse, else the recovery
StageDirect(jsonText, direct) ==
    IF direct.ok THEN Loaded(1, direct.val)
    ELSE StageTruncated(jsonText, ParseTruncatedJson(jsonText))

\* lines 129-138: the three stages, in order
LoadData(jsonText) == StageDirect(jsonText, JsonLoads(jsonText))

\* lines 120-127: the text handed to the stages
JsonTextOf(resp) ==
    IF SearchBraces(Strip(resp)).found
    THEN SearchBraces(Strip(resp)).text
    ELSE Strip(resp)

\* the mutant of the outer handler: only JSON errors are caught
OuterExceptJsonOnly(exc) == exc = "JSONDecodeError"

\* `except Exception` of _parse_llm_response: every exception is caught
OuterExceptCatches(exc) == exc \in {"JSONDecodeError", "TypeError", "AttributeError",
                                      "ValidationError", "KeyError"}

\* lines 140-186 after the stages: the body of the outer try
TryBody(loaded, chunk) ==
    IF loaded.stage = 0 THEN Raised("JSONDecodeError")
    ELSE ExtractCards(loaded.data, chunk)

\* what the call returns, given how the body of the try ended
ParseOutcome(loaded, body) ==
    [raised |-> body.exc # "none" /\ ~OuterExceptCatches(body.exc),
     cards  |-> IF body.exc = "none" THEN body.cards ELSE <<>>,
     stage  |-> loaded.stage,
     data   |-> loaded.data]

ParseLoaded(loaded, chunk) == ParseOutcome(loaded, TryBody(loaded, chunk))

\* _parse_llm_response(response_text, chunk)
ParseLlmResponse(responseText, chunk) ==
    ParseLoaded(LoadData(JsonTextOf(responseText)), chunk)

(***************************************************************************)
(* Model responses: what an LLM may send back.  A response is described by *)
(* respInfo and rendered to text by ResponseText.                          *)
(***************************************************************************)
\* most entries of a generated `cards` list
MaxEntries == 2

\* most entries of a truncated response
MaxTruncEntries == 2

Pair(k, v) == [k |-> k, v |-> v]

T_Q(c) == <<"Q", c, "?">>
T_A(c) == <<"A", c>>
T_c1   == <<"c", "1">>

\* the entries a response may carry
EntryPool ==
    << \* 1, 2: the shape the prompt asks for
       DictV(<<Pair(S_front, StrV(T_Q("1"))), Pair(S_back, StrV(T_A("1"))),
               Pair(S_chunk_id, StrV(T_c1))>>),
       DictV(<<Pair(S_front, StrV(T_Q("2"))), Pair(S_back, StrV(T_A("2"))),
               Pair(S_chunk_id, StrV(T_c1))>>),
       \* 3: the shape of the built-in default template
       DictV(<<Pair(S_question, StrV(T_Q("3"))), Pair(S_answer, StrV(T_A("3"))),
               Pair(S_difficulty, StrV(S_easy))>>),
       \* 4: text with an escaped quote
       DictV(<<Pair(S_front, StrV(<<"Q", "\"", "4", "\"", "?">>)),
               Pair(S_back, StrV(T_A("4"))), Pair(S_chunk_id, StrV(T_c1))>>),
       \* 5: an unrecognized difficulty
       DictV(<<Pair(S_front, StrV(T_Q("5"))), Pair(S_back, StrV(T_A("5"))),
               Pair(S_difficulty, StrV(<<"x">>))>>),
       \* 6: an empty front
       DictV(<<Pair(S_front, StrV(<<>>)), Pair(S_back, StrV(T_A("6"))),
               Pair(S_chunk_id, StrV(T_c1))>>),
       \* 7: no back
       DictV(<<Pair(S_front, StrV(T_Q("7")))>>),
       \* 8: text to be trimmed
       DictV(<<Pair(S_front, StrV(<<" ">> \o T_Q("8"))),
               Pair(S_back, StrV(T_A("8") \o <<" ">>))>>),
       \* 9: a front that is not text
       DictV(<<Pair(S_front, NumV(9)), Pair(S_back, StrV(T_A("9")))>>),
       \* 10: an entry that is not an object
       StrV(T_Q("0")),
       \* 11: a null difficulty
       DictV(<<Pair(S_front, StrV(T_Q("n"))), Pair(S_back, StrV(T_A("n"))),
               Pair(S_difficulty, NullV)>>),
       \* 12: a recognized difficulty
       DictV(<<Pair(S_front, StrV(T_Q("h"))), Pair(S_back, StrV(T_A("h"))),
               Pair(S_difficulty, StrV(S_hard))>>) >>

\* entries of truncated responses: complete, well-formed card objects
TruncPool == {1, 3, 4}

\* the truncated example: two complete cards and the start of a third
ExampleEntries == <<1, 2, 1>>

\* texts that are no card object at all
RawPool ==
    << <<>>,
       <<"h", "i">>,
       <<"a", " ", "{", "b", "}", " ", "c">>,
       <<"}", " ", "{">>,
       <<"[", "1", "]">>,
       Quoted(S_cards),
       <<"7">>,
       <<"n", "u", "l", "l">>,
       <<"[">> \o Quoted(S_cards) \o <<"]">>,
       <<"{">> \o Quoted(<<"x">>) \o <<":", "1", "}">>,
       <<"{">> \o Quoted(S_cards) \o <<":", "7", "}">>,
       <<"{">> \o Quoted(S_cards) \o <<":", "7", ",">> \o Quoted(S_flashcards)
              \o <<":", "[", "]", "}">>,
       <<" ", "{", "}", "\n">> >>

\* json.dumps of a string body: quotes and backslashes escaped
RECURSIVE EscapeStr(_, _)
EscapeStr(s, i) ==
    IF i > Len(s) THEN <<>>
    ELSE (IF s[i] \in {"\"", "\\"} THEN <<"\\", s[i]>> ELSE <<s[i]>>)
         \o EscapeStr(s, i + 1)

NumText(n) == <<CHOOSE c \in Digits : DigitVal(c) = n>>

\* JSON text of a value, compact separators; bare: object keys unquoted
RECURSIVE Dumps(_, _)
RECURSIVE DumpItems(_, _, _)
RECURSIVE DumpPairs(_, _, _)
Dumps(x, bare) ==
    CASE x.t = "str"   -> Quoted(EscapeStr(x.v, 1))
      [] x.t = "num"   -> NumText(x.v)
      [] x.t = "null"  -> <<"n", "u", "l", "l">>
      [] x.t = "true"  -> <<"t", "r", "u", "e">>
      [] x.t = "false" -> <<"f", "a", "l", "s", "e">>
      [] x.t = "list"  -> <<"[">> \o DumpItems(x.v, 1, bare) \o <<"]">>
      [] x.t = "dict"  -> <<"{">> \o DumpPairs(x.v, 1, bare) \o <<"}">>

DumpItems(l, i, bare) ==
    IF i > Len(l) THEN <<>>
    ELSE (IF i > 1 THEN <<",">> ELSE <<>>) \o Dumps(l[i], bare)
         \o DumpItems(l, i + 1, bare)

DumpPairs(d, i, bare) ==
    IF i > Len(d) THEN <<>>
    ELSE (IF i > 1 THEN <<",">> ELSE <<>>)
         \o (IF bare THEN d[i].k ELSE Quoted(d[i].k)) \o <<":">>
         \o Dumps(d[i].v, bare)
         \o DumpPairs(d, i + 1, bare)

\* the object {key: [entries]}
ResponseObject(key, entries) ==
    DictV(<<Pair(key, ListV([i \in 1..Len(entries) |-> EntryPool[entries[i]]]))>>)

ProsePrefix == <<"O", "k", ":", "\n">>
ProseSuffix == <<"\n", "D", "o", "n", "e", ".">>

ResponseText(info) ==
    LET full == Dumps(ResponseObject(info.key, info.entries), info.kind = "bare") IN
    CASE info.kind = "raw"       -> RawPool[info.cut]
      [] info.kind = "plain"     -> full
      [] info.kind = "bare"      -> full
      [] info.kind = "wrapped"   -> ProsePrefix \o full \o ProseSuffix
      [] info.kind = "truncated" -> Take(full, info.cut)

\* sequences over set S of length at most n
SeqsUpTo(S, n) == UNION {[1..k -> S] : k \in 0..n}

Info(kind, key, entries, cut) ==
    [kind |-> kind, key |-> key, entries |-> entries, cut |-> cut]

ResponseInfos ==
    {Info("raw", S_cards, <<>>, n) : n \in 1..Len(RawPool)}
    \cup {Info(v[1], v[2], es, 0) :
            v \in {<<"plain", S_cards>>, <<"plain", S_flashcards>>,
                   <<"bare", S_cards>>, <<"wrapped", S_flashcards>>},
            es \in SeqsUpTo(1..Len(EntryPool), MaxEntries)}
    \cup UNION {{Info("truncated", key, es, cut) :
                   cut \in 1..(Len(Dumps(ResponseObject(key, es), FALSE)) - 1)} :
                key \in {S_cards},
                es \in SeqsUpTo(TruncPool, MaxTruncEntries) \cup {ExampleEntries}}

(***************************************************************************)
(* SpecParse: _parse_llm_response applied to one model response.           *)
(***************************************************************************)
NoResult == [raised |-> FALSE, cards |-> <<>>, stage |-> 0, data |-> NoneV]

InitParse ==
    /\ respInfo \in ResponseInfos
    /\ response = ResponseText(respInfo)
    /\ parsePc = "input"
    /\ parseResult = NoResult
    /\ ValidIdle
    /\ GenIdle
    /\ RestIdle

DoParse ==
    /\ parsePc = "input"
    /\ parseResult' = ParseLlmResponse(response, 1)
    /\ parsePc' = "done"
    /\ UNCHANGED <<respInfo, response, validVars, genVars, restVars>>

NextParse == DoParse

SpecParse == InitParse /\ [][NextParse]_vars

(***************************************************************************)
(* Properties of the response parser (SpecParse).                          *)
(***************************************************************************)
ParserDone == parsePc = "done"

\* no stage of the ladder yields an object
NoStageYields(resp) ==
    /\ ~JsonLoads(JsonTextOf(resp)).ok
    /\ ~Truthy(ParseTruncatedJson(JsonTextOf(resp)))
    /\ ~JsonLoads(FixJsonFormat(JsonTextOf(resp))).ok

\* C1: _parse_llm_response never raises, whatever the response text is; it
\* returns a list of cards, and the empty list when no stage of the recovery
\* ladder yields an object.
C1_ParseNeverRaises ==
    ParserDone =>
        /\ parseResult.raised = FALSE
        /\ NoStageYields(response) => parseResult.cards = <<>>

\* C1 witness: a response that is valid JSON but no object (a TypeError inside
\* the function) has been parsed, and so has one no stage could read.
C1_Witness ==
    /\ ParserDone
    /\ \/ response = <<"7">>
       \/ NoStageYields(response) /\ respInfo.kind = "truncated"

\* the text an entry carries for one side, under either field name, trimmed;
\* <<>> when it carries none
SideText(entry, name, legacy) ==
    LET IsText(k) == /\ HasKey(entry, k)
                     /\ DictGet(entry, k, NoneV).t = "str"
                     /\ Strip(DictGet(entry, k, NoneV).v) # <<>>
    IN IF entry.t # "dict" THEN <<>>
       ELSE IF IsText(name) THEN Strip(DictGet(entry, name, NoneV).v)
       ELSE IF IsText(legacy) THEN Strip(DictGet(entry, legacy, NoneV).v)
       ELSE <<>>

FrontOf(entry) == SideText(entry, S_front, S_question)
BackOf(entry)  == SideText(entry, S_back, S_answer)
CarriesBothSides(entry) == FrontOf(entry) # <<>> /\ BackOf(entry) # <<>>

\* the <<front, back>> pairs of the entries that carry both sides, in order
RECURSIVE SidesOfEntries(_, _)
SidesOfEntries(entries, n) ==
    IF n > Len(entries) THEN <<>>
    ELSE (IF CarriesBothSides(entries[n])
          THEN <<(<<FrontOf(entries[n]), BackOf(entries[n])>>)>> ELSE <<>>)
         \o SidesOfEntries(entries, n + 1)

SidesOfCards(cards) == [i \in 1..Len(cards) |-> <<cards[i].front, cards[i].back>>]

\* the `cards` (or `flashcards`) list of a parsed object
HasCardList(data) ==
    /\ data.t = "dict"
    /\ \/ HasKey(data, S_cards) /\ DictGet(data, S_cards, NoneV).t = "list"
       \/ ~HasKey(data, S_cards) /\ HasKey(data, S_flashcards)
          /\ DictGet(data, S_flashcards, NoneV).t = "list"

CardList(data) ==
    IF HasKey(data, S_cards) THEN DictGet(data, S_cards, NoneV).v
    ELSE DictGet(data, S_flashcards, NoneV).v

\* C2 (as claimed): the cards returned are exactly the entries of the list
\* that carry a non-empty front and back, one card per entry, in order, with
\* that entry's text.
C2_ExactlyTheEntriesWithBothSides ==
    (ParserDone /\ parseResult.stage # 0 /\ HasCardList(parseResult.data)) =>
        SidesOfCards(parseResult.cards) = SidesOfEntries(CardList(parseResult.data), 1)

\* index in the full text of the closing brace of entry i of a generated response
RECURSIVE EntryEnd(_, _)
EntryEnd(info, i) ==
    IF i = 0 THEN Len(info.key) + 5
    ELSE EntryEnd(info, i - 1) + (IF i > 1 THEN 1 ELSE 0)
         + Len(Dumps(EntryPool[info.entries[i]], FALSE))

\* the response was cut inside the array (after "[" and before "]")
CutMidArray(info) ==
    /\ info.kind = "truncated"
    /\ info.cut >= Len(info.key) + 5
    /\ info.cut <= EntryEnd(info, Len(info.entries))

\* the entries that are complete before the cut
CompleteEntries(info) ==
    LET k == Cardinality({i \in 1..Len(info.entries) : EntryEnd(info, i) <= info.cut})
    IN [i \in 1..k |-> EntryPool[info.entries[i]]]

\* an object of the shape {front, back, chunk_id}
ExactShape(entry) ==
    /\ entry.t = "dict"
    /\ [i \in 1..Len(entry.v) |-> entry.v[i].k] = <<S_front, S_back, S_chunk_id>>

\* C3 (as claimed): a response cut off mid-array after k complete objects of
\* the shape {front, back, chunk_id} yields exactly those k cards, in order.
C3_TruncatedYieldsTheCompleteCards ==
    (/\ ParserDone
     /\ CutMidArray(respInfo)
     /\ \A i \in 1..Len(respInfo.entries) : ExactShape(EntryPool[respInfo.entries[i]]))
    => SidesOfCards(parseResult.cards) = SidesOfEntries(CompleteEntries(respInfo), 1)

\* C4 (as claimed): every complete, well-formed card object before the cut
\* is returned.
C4_TruncationKeepsLeadingCards ==
    (ParserDone /\ CutMidArray(respInfo)) =>
        \A i \in 1..Len(CompleteEntries(respInfo)) :
            CarriesBothSides(CompleteEntries(respInfo)[i]) =>
                \E n \in 1..Len(parseResult.cards) :
                    /\ parseResult.cards[n].front = FrontOf(CompleteEntries(respInfo)[i])
                    /\ parseResult.cards[n].back = BackOf(CompleteEntries(respInfo)[i])

\* the difficulty of an entry is absent or none of easy / medium / hard
DifficultyUnrecognized(entry) ==
    \/ ~HasKey(entry, S_difficulty)
    \/ DictGet(entry, S_difficulty, NoneV).t # "str"
    \/ DictGet(entry, S_difficulty, NoneV).v \notin {S_easy, S_medium, S_hard}

\* C5 (as claimed): an entry with both sides whose difficulty is absent or
\* unrecognized yields a card of difficulty "medium".
C5_DifficultyDefaultsToMedium ==
    (ParserDone /\ parseResult.stage # 0 /\ HasCardList(parseResult.data)) =>
        \A i \in 1..Len(CardList(parseResult.data)) :
            LET entry == CardList(parseResult.data)[i] IN
            (CarriesBothSides(entry) /\ DifficultyUnrecognized(entry)) =>
                \E n \in 1..Len(parseResult.cards) :
                    /\ parseResult.cards[n].front = FrontOf(entry)
                    /\ parseResult.cards[n].difficulty = "medium"

(***************************************************************************)
(* FlashcardGenerator.validate_cards.                                      *)
(***************************************************************************)
MinFrontLen == 10
MinBackLen == 5

\* generic_starters of _is_low_quality_card
GenericStarters ==
    { <<"w", "h", "a", "t", " ", "i", "s", " ", "t", "h", "i", "s">>,
      <<"w", "h", "a", "t", " ", "a", "r", "e", " ", "t", "h", "e", "s", "e">>,
      <<"e", "x", "p", "l", "a", "i", "n", " ", "t", "h", "i", "s">>,
      <<"d", "e", "s", "c", "r", "i", "b", "e", " ", "t", "h", "i", "s">>,
      <<"w", "h", "a", "t", " ", "d", "o", "e", "s", " ", "t", "h", "i", "s", " ", "m", "e", "a", "n">> }

\* _is_low_quality_card
IsLowQualityCard(card) ==
    LET question == Lower(card.front)
        answer == Lower(card.back)
    IN \/ \E starter \in GenericStarters : StartsWith(question, starter)
       \/ Contains(answer, question)
       \/ Contains(question, answer)

\* the mutant of the length check: a front of exactly 10 characters is dropped
FrontTooShortOffByOne(card) == Len(card.front) <= MinFrontLen

\* `len(card.front) < 10`
FrontTooShort(card) == Len(card.front) < MinFrontLen

\* `len(card.back) < 5`
BackTooShort(card) == Len(card.back) < MinBackLen

\* the body of the loop of validate_cards: is the card appended
KeepsCard(card) ==
    IF Len(card.front) = 0 \/ Len(card.back) = 0 THEN FALSE
    ELSE IF FrontTooShort(card) THEN FALSE
    ELSE IF BackTooShort(card) THEN FALSE
    ELSE IF IsLowQualityCard(card) THEN FALSE
    ELSE TRUE

\* validate_cards
RECURSIVE ValidateCards(_, _, _)
ValidateCards(cards, n, acc) ==
    IF n > Len(cards) THEN acc
    ELSE ValidateCards(cards, n + 1,
                       IF KeepsCard(cards[n]) THEN Append(acc, cards[n]) ELSE acc)

(***************************************************************************)
(* SpecValidate: validate_cards applied to a list of cards.                *)
(***************************************************************************)
\* most cards in a validated list
MaxCards == 2

NewCard(front, back) ==
    [front |-> front, back |-> back, difficulty |-> "medium", chunk |-> 1]

CardHi == NewCard(<<"H", "i", "?">>, <<"H", "e", "l", "l", "o", " ", "t", "h", "e", "r", "e">>)
CardPolymorphism == NewCard(<<"W", "h", "a", "t", " ", "i", "s", " ", "p", "o", "l", "y", "m", "o", "r", "p", "h", "i", "s", "m", "?">>, <<"A", "b", "i", "l", "i", "t", "y", " ", "t", "o", " ", "t", "a", "k", "e", " ", "m", "a", "n", "y", " ", "f", "o", "r", "m", "s", ".">>)

CardPool ==
    { CardHi,
      CardPolymorphism,
      NewCard(<<"D", "e", "f", "i", "n", "e", " ", "O", "O", "P">>, <<"A", " ", "w", "a", "y">>),
      NewCard(<<"W", "h", "a", "t", "'", "s", " ", "x", "?">>, <<"A", " ", "v", "a", "r", "i", "a", "b", "l", "e">>),
      NewCard(<<"N", "a", "m", "e", " ", "a", " ", "l", "o", "o", "p">>, <<"f", "o", "r", "!">>),
      NewCard(<<"W", "h", "a", "t", " ", "i", "s", " ", "t", "h", "i", "s", " ", "t", "h", "i", "n", "g", "?">>, <<"S", "o", "m", "e", "t", "h", "i", "n", "g", " ", "e", "l", "s", "e">>),
      NewCard(<<"E", "X", "P", "L", "A", "I", "N", " ", "T", "H", "I", "S", " ", "c", "o", "n", "c", "e", "p", "t">>, <<"B", "e", "c", "a", "u", "s", "e", " ", "r", "e", "a", "s", "o", "n", "s">>),
      NewCard(<<"W", "h", "a", "t", " ", "i", "s", " ", "P", "y", "t", "h", "o", "n", "?">>, <<"p", "y", "t", "h", "o", "n">>),
      NewCard(<<"P", "y", "t", "h", "o", "n", " ", "l", "o", "o", "p">>, <<"A", " ", "P", "y", "t", "h", "o", "n", " ", "l", "o", "o", "p", " ", "r", "e", "p", "e", "a", "t", "s">>) }

InitValidate ==
    /\ cardsIn \in SeqsUpTo(CardPool, MaxCards)
    /\ validPc = "input"
    /\ cardsOut = <<>>
    /\ ParseIdle
    /\ GenIdle
    /\ RestIdle

DoValidate ==
    /\ validPc = "input"
    /\ cardsOut' = ValidateCards(cardsIn, 1, <<>>)
    /\ validPc' = "done"
    /\ UNCHANGED <<cardsIn, parseVars, genVars, restVars>>

NextValidate == DoValidate

SpecValidate == InitValidate /\ [][NextValidate]_vars

(***************************************************************************)
(* Properties of validate_cards (SpecValidate).                            *)
(***************************************************************************)
\* the rules as stated: lengths, no side contained in the other (case
\* ignored), no generic stem at the start of the front
PassesEveryRule(card) ==
    /\ Len(card.front) >= 10
    /\ Len(card.back) >= 5
    /\ ~Contains(Lower(card.front), Lower(card.back))
    /\ ~Contains(Lower(card.back), Lower(card.front))
    /\ \A stem \in GenericStarters : ~StartsWith(Lower(card.front), stem)

\* the cards of s that pass every rule, in the order of s
RECURSIVE PassingCards(_, _, _)
PassingCards(s, n, acc) ==
    IF n > Len(s) THEN acc
    ELSE PassingCards(s, n + 1, IF PassesEveryRule(s[n]) THEN Append(acc, s[n]) ELSE acc)

\* C6: validate_cards returns exactly the input cards that pass every rule,
\* in input order; "Hi?" is rejected and the polymorphism card is kept.
C6_ValidateKeepsExactlyThePassingCards ==
    validPc = "done" =>
        /\ cardsOut = PassingCards(cardsIn, 1, <<>>)
        /\ \A n \in 1..Len(cardsOut) : cardsOut[n] # CardHi
        /\ \A n \in 1..Len(cardsIn) :
               cardsIn[n] = CardPolymorphism =>
                   \E m \in 1..Len(cardsOut) : cardsOut[m] = CardPolymorphism

\* C6 witness: a list holding the rejected "Hi?" card and the kept
\* polymorphism card has been validated, and one of the two was dropped.
C6_Witness ==
    /\ validPc = "done"
    /\ cardsIn = <<CardHi, CardPolymorphism>>
    /\ cardsOut = <<CardPolymorphism>>

(***************************************************************************)
(* Prompt templates and str.format.  A template is a sequence of segments: *)
(* literal text, a replacement field {name}, or an escaped brace.          *)
(***************************************************************************)
Lit == [k |-> "lit", name |-> ""]
Brace == [k |-> "brace", name |-> ""]
Field(name) == [k |-> "field", name |-> name]

\* _get_default_prompt_template: {max_cards} and {text_content} are its
\* replacement fields, the JSON example is written with {{ and }}
DefaultPromptTemplate ==
    << Lit, Field("max_cards"), Lit, Field("text_content"), Lit,
       Brace, Lit, Brace, Lit, Brace, Lit, Brace >>

\* prompts/qa_generation.md as the application renders it: the chunk text,
\* the chunk id, and a JSON example in braces
FilePromptTemplate ==
    << Lit, Field("text"), Lit, Brace, Lit, Brace, Lit, Field("chunk_id"),
       Lit, Brace, Lit, Brace >>

\* _load_prompt_template
LoadPromptTemplate(file) ==
    IF file = "present" THEN FilePromptTemplate
    ELSE DefaultPromptTemplate      \* not found, or open/read raised

\* the keyword arguments of the format call in _create_generation_prompt
PromptArguments == {"text", "chunk_id"}

\* str.format(**kwargs): KeyError for a replacement field that is no argument
Format(tmpl, kwargs) ==
    IF \E n \in 1..Len(tmpl) : tmpl[n].k = "field" /\ tmpl[n].name \notin kwargs
    THEN "KeyError" ELSE "none"

\* _create_generation_prompt: "none" when the prompt is built, else the exception
CreateGenerationPrompt(tmpl) == Format(tmpl, PromptArguments)

(***************************************************************************)
(* generate_cards_from_chunk, generate_cards_from_chunks (sequential) and  *)
(* generate_cards_batch (semaphore-bounded).                               *)
(***************************************************************************)
\* most chunks in one run
MaxChunks == 3

\* largest max_concurrent tried
MaxConcurrent == 2

\* what the model may answer when the call succeeds
GenResponses ==
    << ResponseText(Info("plain", S_cards, <<1, 2>>, 0)),
       ResponseText(Info("wrapped", S_flashcards, <<3>>, 0)),
       ResponseText(Info("raw", S_cards, <<>>, 2)) >>

Outcome(kind, resp) == [kind |-> kind, resp |-> resp]

\* how one chat_completion call may end
LlmOutcomes ==
    {Outcome("ok", r) : r \in 1..Len(GenResponses)}
    \cup {Outcome("timeout", 0), Outcome("error", 0), Outcome("empty", 0)}

NoOutcome == Outcome("none", 0)

\* the mutant of the handler of generate_cards_from_chunk: timeouts escape
GenerateCatchesButTimeout(exc) == exc # "TimeoutException"

\* `except Exception` of generate_cards_from_chunk
GenerateCatches(exc) == TRUE

\* the exception chat_completion raises for an outcome
LlmException(outcome) ==
    CASE outcome.kind = "timeout" -> "TimeoutException"
      [] outcome.kind = "error"   -> "HTTPStatusError"
      [] OTHER                    -> "none"

\* lines 112-114: the exception is logged and [] returned, if it is caught
Handled(exc) == IF GenerateCatches(exc) THEN Returned(<<>>) ELSE Raised(exc)

\* lines 102-110: the response is checked and parsed
CardsOfResponse(outcome, chunk) ==
    IF outcome.kind = "empty" THEN Returned(<<>>)
    ELSE Returned(ParseLlmResponse(GenResponses[outcome.resp], chunk).cards)

\* generate_cards_from_chunk from the point where the LLM call ends
AfterLlmCall(outcome, chunk) ==
    IF LlmException(outcome) # "none" THEN Handled(LlmException(outcome))
    ELSE CardsOfResponse(outcome, chunk)

\* results[0] + results[1] + ... of the listed chunks; exceptions contribute nothing
RECURSIVE CollectCards(_, _, _)
CollectCards(results, n, last) ==
    IF n > last THEN <<>>
    ELSE (IF results[n].exc = "none" THEN results[n].cards ELSE <<>>)
         \o CollectCards(results, n + 1, last)

Chunks == 1..chunkCount

InitGen ==
    /\ promptFile \in {"present", "missing", "unreadable"}
    /\ promptTemplate = LoadPromptTemplate(promptFile)
    /\ genMode \in {"sequential", "batch"}
    /\ chunkCount \in 0..MaxChunks
    /\ maxConcurrent \in (IF genMode = "batch" THEN 1..MaxConcurrent ELSE {0})
    /\ rateLimited \in BOOLEAN
    /\ taskPc = [i \in Chunks |-> "pending"]
    /\ taskOutcome = [i \in Chunks |-> NoOutcome]
    /\ taskResult = [i \in Chunks |-> Returned(<<>>)]
    /\ semaphore = maxConcurrent
    /\ requested = {}
    /\ genPc = "running"
    /\ genResult = <<>>
    /\ ParseIdle
    /\ ValidIdle
    /\ RestIdle

\* generate_cards_from_chunk up to the await of chat_completion: the prompt is
\* built, and the request goes out unless building it raised
PromptFailure == CreateGenerationPrompt(promptTemplate)

\* the sequential loop reaches chunk i (after the rate-limit sleep, if any)
SeqRequest(i) ==
    /\ genMode = "sequential" /\ genPc = "running"
    /\ taskPc[i] = "pending"
    /\ \A j \in 1..(i - 1) : taskPc[j] = "done"
    /\ IF PromptFailure = "none"
       THEN /\ taskPc' = [taskPc EXCEPT ![i] = "inflight"]
            /\ requested' = requested \cup {i}
            /\ UNCHANGED <<taskResult, genPc>>
       ELSE /\ taskResult' = [taskResult EXCEPT ![i] = Handled(PromptFailure)]
            /\ requested' = requested
            /\ IF Handled(PromptFailure).exc = "none"
               THEN taskPc' = [taskPc EXCEPT ![i] = "done"] /\ genPc' = genPc
               ELSE taskPc' = [taskPc EXCEPT ![i] = "failed"] /\ genPc' = "raised"
    /\ UNCHANGED <<promptFile, promptTemplate, genMode, chunkCount, maxConcurrent,
                   rateLimited, taskOutcome, semaphore, genResult>>
    /\ UNCHANGED <<parseVars, validVars, restVars>>

\* the sequential loop: the awaited call of chunk i ends; an exception that
\* generate_cards_from_chunk lets through leaves generate_cards_from_chunks
SeqLlmReturns(i, outcome) ==
    /\ genMode = "sequential" /\ genPc = "running"
    /\ taskPc[i] = "inflight"
    /\ taskOutcome' = [taskOutcome EXCEPT ![i] = outcome]
    /\ taskResult' = [taskResult EXCEPT ![i] = AfterLlmCall(outcome, i)]
    /\ IF AfterLlmCall(outcome, i).exc = "none"
       THEN taskPc' = [taskPc EXCEPT ![i] = "done"] /\ genPc' = genPc
       ELSE taskPc' = [taskPc EXCEPT ![i] = "failed"] /\ genPc' = "raised"
    /\ UNCHANGED <<promptFile, promptTemplate, genMode, chunkCount, maxConcurrent,
                   rateLimited, semaphore, requested, genResult>>
    /\ UNCHANGED <<parseVars, validVars, restVars>>

\* lines 247-262: every chunk was processed, the accumulated list is returned
SeqFinish ==
    /\ genMode = "sequential" /\ genPc = "running"
    /\ \A i \in Chunks : taskPc[i] = "done"
    /\ genResult' = CollectCards(taskResult, 1, chunkCount)
    /\ genPc' = "done"
    /\ UNCHANGED <<promptFile, promptTemplate, genMode, chunkCount, maxConcurrent,
                   rateLimited, taskPc, taskOutcome, taskResult, semaphore, requested>>
    /\ UNCHANGED <<parseVars, validVars, restVars>>

\* generate_with_semaphore of chunk i once it holds the semaphore and has
\* slept: the prompt is built; without a request the task ends and releases
BatchProceed(i, held) ==
    IF PromptFailure = "none"
    THEN /\ taskPc' = [taskPc EXCEPT ![i] = "inflight"]
         /\ requested' = requested \cup {i}
         /\ semaphore' = held
         /\ UNCHANGED taskResult
    ELSE /\ taskPc' = [taskPc EXCEPT ![i] = "done"]
         /\ taskResult' = [taskResult EXCEPT ![i] = Handled(PromptFailure)]
         /\ requested' = requested
         /\ semaphore' = held + 1

\* `async with semaphore`: the tasks acquire in the order gather started them
BatchAcquire(i) ==
    /\ genMode = "batch" /\ genPc = "running"
    /\ taskPc[i] = "pending"
    /\ \A j \in 1..(i - 1) : taskPc[j] # "pending"
    /\ semaphore > 0
    /\ IF rateLimited
       THEN /\ taskPc' = [taskPc EXCEPT ![i] = "sleeping"]
            /\ semaphore' = semaphore - 1
            /\ UNCHANGED <<taskResult, requested>>
       ELSE BatchProceed(i, semaphore - 1)
    /\ UNCHANGED <<promptFile, promptTemplate, genMode, chunkCount, maxConcurrent,
                   rateLimited, taskOutcome, genPc, genResult>>
    /\ UNCHANGED <<parseVars, validVars, restVars>>

\* asyncio.sleep(rate_limit_delay) of task i is over
BatchWake(i) ==
    /\ genMode = "batch" /\ genPc = "running"
    /\ taskPc[i] = "sleeping"
    /\ BatchProceed(i, semaphore)
    /\ UNCHANGED <<promptFile, promptTemplate, genMode, chunkCount, maxConcurrent,
                   rateLimited, taskOutcome, genPc, genResult>>
    /\ UNCHANGED <<parseVars, validVars, restVars>>

\* the awaited call of task i ends; the task ends with a list or an
\* exception and releases the semaphore
BatchLlmReturns(i, outcome) ==
    /\ genMode = "batch" /\ genPc = "running"
    /\ taskPc[i] = "inflight"
    /\ taskOutcome' = [taskOutcome EXCEPT ![i] = outcome]
    /\ taskResult' = [taskResult EXCEPT ![i] = AfterLlmCall(outcome, i)]
    /\ taskPc' = [taskPc EXCEPT ![i] = "done"]
    /\ semaphore' = semaphore + 1
    /\ UNCHANGED <<promptFile, promptTemplate, genMode, chunkCount, maxConcurrent,
                   rateLimited, requested, genPc, genResult>>
    /\ UNCHANGED <<parseVars, validVars, restVars>>

\* gather(return_exceptions=True) has every result; lists are concatenated in
\* task order, exceptions logged
BatchGather ==
    /\ genMode = "batch" /\ genPc = "running"
    /\ \A i \in Chunks : taskPc[i] = "done"
    /\ genResult' = CollectCards(taskResult, 1, chunkCount)
    /\ genPc' = "done"
    /\ UNCHANGED <<promptFile, promptTemplate, genMode, chunkCount, maxConcurrent,
                   rateLimited, taskPc, taskOutcome, taskResult, semaphore, requested>>
    /\ UNCHANGED <<parseVars, validVars, restVars>>

NextGen ==
    \/ \E i \in Chunks : SeqRequest(i)
    \/ \E i \in Chunks, outcome \in LlmOutcomes : SeqLlmReturns(i, outcome)
    \/ SeqFinish
    \/ \E i \in Chunks : BatchAcquire(i)
    \/ \E i \in Chunks : BatchWake(i)
    \/ \E i \in Chunks, outcome \in LlmOutcomes : BatchLlmReturns(i, outcome)
    \/ BatchGather

SpecGen == InitGen /\ [][NextGen]_vars

(***************************************************************************)
(* Properties of card generation (SpecGen).                                *)
(***************************************************************************)
\* the call of chunk i ended in a timeout or another failure
CallFailed(i) == taskOutcome[i].kind \in {"timeout", "error"}

\* the call of chunk i succeeded: a response came back
CallSucceeded(i) == taskOutcome[i].kind \in {"ok", "empty"}

\* the cards the response of chunk i holds, read by the response parser
CardsOfCall(i) ==
    IF taskOutcome[i].kind = "ok"
    THEN ParseLlmResponse(GenResponses[taskOutcome[i].resp], i).cards
    ELSE <<>>

\* the cards of the chunks whose call succeeded, in chunk order
RECURSIVE CardsOfSucceeded(_)
CardsOfSucceeded(i) ==
    IF i > chunkCount THEN <<>> ELSE CardsOfCall(i) \o CardsOfSucceeded(i + 1)

\* C7: in both modes a timeout or other failure of one chunk's LLM call has no
\* effect beyond that chunk's cards: the operation never raises, and once it
\* has returned every chunk was processed, every chunk was requested when
\* some call failed, and the result is the concatenation in chunk order of
\* the cards of the chunks whose call succeeded (nothing for a failed one).
C7_FailedCallOnlyCostsItsChunk ==
    /\ genPc # "raised"
    /\ genPc = "done" =>
          /\ \A i \in Chunks : taskPc[i] = "done"
          /\ (\E i \in Chunks : CallFailed(i)) => requested = Chunks
          /\ genResult = CardsOfSucceeded(1)

\* a three-chunk run has returned: the middle call timed out, the first and
\* the last succeeded with cards, and both contribute to the result
C7_Witness ==
    /\ genPc = "done" /\ chunkCount = 3
    /\ taskOutcome[2].kind = "timeout"
    /\ CallSucceeded(1) /\ CallSucceeded(3)
    /\ CardsOfCall(1) # <<>> /\ CardsOfCall(3) # <<>>
    /\ genResult = CardsOfCall(1) \o CardsOfCall(3)

\* C8: with the template file missing or unreadable the generator runs on
\* its built-in default template, the prompt of every chunk it processes is
\* built, and its request goes to the LLM as it does with the file present.
C8_DefaultTemplateBuildsThePrompt ==
    promptFile \in {"missing", "unreadable"} =>
        /\ promptTemplate = DefaultPromptTemplate
        /\ \A i \in Chunks :
              taskPc[i] \in {"inflight", "done", "failed"} => i \in requested

(***************************************************************************)
(* TextChunker: the pure parts.  A text is a sequence of characters, a     *)
(* list of chunks a sequence of texts.                                     *)
(***************************************************************************)
\* the index where the word starting at a ends (exclusive)
WordEnd(s, a) ==
    IF FindSet(s, Whitespace, a) = 0 THEN Len(s) + 1 ELSE FindSet(s, Whitespace, a)

\* str.split(): the maximal runs of non-whitespace characters from index i on
RECURSIVE SplitFrom(_, _)
SplitFrom(s, i) ==
    IF SkipSet(s, i, Whitespace) > Len(s) THEN <<>>
    ELSE <<SubSeq(s, SkipSet(s, i, Whitespace),
                  WordEnd(s, SkipSet(s, i, Whitespace)) - 1)>>
         \o SplitFrom(s, WordEnd(s, SkipSet(s, i, Whitespace)))

\* str.split()
Split(s) == SplitFrom(s, 1)

\* count_words
CountWords(s) == Len(Split(s))

\* count_tokens without a tokenizer: int(word_count * 0.75)
CountTokens(s) == (3 * CountWords(s)) \div 4

\* sep.join(parts)
RECURSIVE Join(_, _)
Join(parts, sep) ==
    IF parts = <<>> THEN <<>>
    ELSE IF Len(parts) = 1 THEN parts[1]
    ELSE parts[1] \o sep \o Join(Tail(parts), sep)

\* [.!?]
SentencePunctuation == {".", "!", "?"}

\* the lookahead (?=[A-Z]|"[A-Z]|'[A-Z]) at index w
CapitalAhead(s, w) ==
    /\ w <= Len(s)
    /\ \/ s[w] \in UpperLetters
       \/ s[w] \in {"\"", "'"} /\ w + 1 <= Len(s) /\ s[w + 1] \in UpperLetters

\* sentence_end_pattern tried at the punctuation run starting at h: the index
\* after the match (run, then whitespace, before a capital), 0 without a match
SentenceMatchEnd(s, h) ==
    LET p == SkipSet(s, h, SentencePunctuation)
        w == SkipSet(s, p, Whitespace)
    IN IF p <= Len(s) /\ s[p] \in Whitespace /\ CapitalAhead(s, w) THEN w ELSE 0

\* sentence_end_pattern.split(s): the piece from start, scanning from i
RECURSIVE SentencePieces(_, _, _)
SentencePieces(s, start, i) ==
    IF FindSet(s, SentencePunctuation, i) = 0 THEN <<Drop(s, start)>>
    ELSE IF SentenceMatchEnd(s, FindSet(s, SentencePunctuation, i)) = 0
    THEN SentencePieces(s, start,
            SkipSet(s, FindSet(s, SentencePunctuation, i), SentencePunctuation))
    ELSE <<SubSeq(s, start, FindSet(s, SentencePunctuation, i) - 1)>>
         \o SentencePieces(s,
               SentenceMatchEnd(s, FindSet(s, SentencePunctuation, i)),
               SentenceMatchEnd(s, FindSet(s, SentencePunctuation, i)))

\* paragraph_pattern \n\s*\n tried at the newline at h: the index after the
\* match (through the last newline of the whitespace run), 0 without a match
ParagraphMatchEnd(s, h) ==
    LET r == SkipSet(s, h + 1, Whitespace)
        later == {j \in (h + 1)..(r - 1) : s[j] = "\n"}
    IN IF later = {} THEN 0 ELSE MaxOf(later) + 1

\* paragraph_pattern.split(s): the piece from start, scanning from i
RECURSIVE ParagraphPieces(_, _, _)
ParagraphPieces(s, start, i) ==
    IF FindChar(s, "\n", i) = 0 THEN <<Drop(s, start)>>
    ELSE IF ParagraphMatchEnd(s, FindChar(s, "\n", i)) = 0
    THEN ParagraphPieces(s, start, FindChar(s, "\n", i) + 1)
    ELSE <<SubSeq(s, start, FindChar(s, "\n", i) - 1)>>
         \o ParagraphPieces(s, ParagraphMatchEnd(s, FindChar(s, "\n", i)),
                            ParagraphMatchEnd(s, FindChar(s, "\n", i)))

\* chunks.append(sep.join(current_chunk)) when current_chunk is not empty
Flush(chunks, current, sep) ==
    IF current = <<>> THEN chunks ELSE Append(chunks, Join(current, sep))

\* the mutant of StartNewChunk: the flushed pieces stay in the new chunk
StartNewChunkKeepsOld(current, piece) == Append(current, piece)

\* current_chunk = [piece] after a flush
StartNewChunk(current, piece) == <<piece>>

\* split_by_sentences: the loop from sentence n on
RECURSIVE SentenceLoop(_, _, _, _, _, _)
SentenceLoop(sentences, n, chunks, current, count, maxWords) ==
    IF n > Len(sentences) THEN Flush(chunks, current, <<" ">>)
    ELSE IF Strip(sentences[n]) = <<>>
    THEN SentenceLoop(sentences, n + 1, chunks, current, count, maxWords)
    ELSE IF current # <<>> /\ count + CountWords(sentences[n]) > maxWords
    THEN SentenceLoop(sentences, n + 1, Flush(chunks, current, <<" ">>),
                      StartNewChunk(current, Strip(sentences[n])),
                      CountWords(sentences[n]), maxWords)
    ELSE SentenceLoop(sentences, n + 1, chunks,
                      Append(current, Strip(sentences[n])),
                      count + CountWords(sentences[n]), maxWords)

\* split_by_sentences
SplitBySentences(s, maxWords) ==
    SentenceLoop(SentencePieces(s, 1, 1), 1, <<>>, <<>>, 0, maxWords)

ParagraphSeparator == <<"\n", "\n">>

\* split_by_paragraphs: the loop from paragraph n on
RECURSIVE ParagraphLoop(_, _, _, _, _, _)
ParagraphLoop(paragraphs, n, chunks, current, count, maxWords) ==
    IF n > Len(paragraphs) THEN Flush(chunks, current, ParagraphSeparator)
    ELSE IF Strip(paragraphs[n]) = <<>>
    THEN ParagraphLoop(paragraphs, n + 1, chunks, current, count, maxWords)
    ELSE IF CountWords(paragraphs[n]) > maxWords
    THEN ParagraphLoop(paragraphs, n + 1,
                       Flush(chunks, current, ParagraphSeparator)
                          \o SplitBySentences(Strip(paragraphs[n]), maxWords),
                       <<>>,
                       (IF current = <<>> THEN count ELSE 0), maxWords)
    ELSE IF count + CountWords(paragraphs[n]) > maxWords
    THEN ParagraphLoop(paragraphs, n + 1,
                       Flush(chunks, current, ParagraphSeparator),
                       StartNewChunk(current, Strip(paragraphs[n])),
                       CountWords(paragraphs[n]), maxWords)
    ELSE ParagraphLoop(paragraphs, n + 1, chunks,
                       Append(current, Strip(paragraphs[n])),
                       count + CountWords(paragraphs[n]), maxWords)

\* split_by_paragraphs
SplitByParagraphs(s, maxWords) ==
    ParagraphLoop(ParagraphPieces(s, 1, 1), 1, <<>>, <<>>, 0, maxWords)

\* _split_by_words: words[i:i + max_words] for i = 0, max_words, ...
RECURSIVE WordWindows(_, _, _)
WordWindows(words, i, maxWords) ==
    IF i > Len(words) THEN <<>>
    ELSE <<Join(SubSeq(words, i, MinOf({i + maxWords - 1, Len(words)})), <<" ">>)>>
         \o WordWindows(words, i + maxWords, maxWords)

\* _split_by_words
SplitByWords(s, maxWords) == WordWindows(Split(s), 1, maxWords)

\* the mutant of the overlap text: always the whole previous chunk
OverlapTextWholeChunk(previous, overlapWords) == previous

\* prev_words[-overlap_words:] joined, or the whole previous chunk
OverlapText(previous, overlapWords) ==
    IF Len(Split(previous)) > overlapWords
    THEN Join(SubSeq(Split(previous), Len(Split(previous)) - overlapWords + 1,
                     Len(Split(previous))), <<" ">>)
    ELSE previous

\* add_overlap
AddOverlap(chunks, overlapWords) ==
    IF overlapWords <= 0 \/ Len(chunks) <= 1 THEN chunks
    ELSE [i \in 1..Len(chunks) |->
            IF i = 1 THEN chunks[1]
            ELSE OverlapText(chunks[i - 1], overlapWords) \o <<" ">> \o chunks[i]]

\* the method dispatch of chunk_text
SplitByMethod(s, method, maxWords) ==
    CASE method = "paragraph" -> SplitByParagraphs(s, maxWords)
      [] method = "sentence"  -> SplitBySentences(s, maxWords)
      [] OTHER                -> SplitByWords(s, maxWords)

\* raw_chunks after the overlap step
WithOverlap(chunks, overlapWords) ==
    IF overlapWords > 0 THEN AddOverlap(chunks, overlapWords) ELSE chunks

\* a chunk passes the filter
LongEnough(chunk, minWords) == CountWords(chunk) >= minWords

\* filtered_chunks
FilterChunks(chunks, minWords) ==
    SelectSeq(chunks, LAMBDA c : LongEnough(c, minWords))

\* chunk_text[:50], the part of a chunk that is searched for
PrefixLen == 50

\* text.find(chunk_text[:50], char_position), 0-based; the cursor when absent
StartPos(text, chunk, charPosition) ==
    IF FindFrom(text, Take(chunk, PrefixLen), charPosition + 1) = 0
    THEN charPosition
    ELSE FindFrom(text, Take(chunk, PrefixLen), charPosition + 1) - 1

\* pydantic's validation of Chunk(...): "none" or the exception
ChunkError(source, text, start, end) ==
    IF source = "none" THEN "ValidationError"            \* source_id: UUID
    ELSE IF Strip(text) = <<>> THEN "ValidationError"    \* text_must_not_be_empty
    ELSE IF start < 0 \/ end < 0 THEN "ValidationError"  \* ge=0
    ELSE IF end <= start THEN "ValidationError"          \* end_char_must_be_after_start
    ELSE "none"

\* Chunk(...)
NewChunk(source, text, index, start) ==
    [source_id |-> source, text |-> text, token_count |-> CountTokens(text),
     word_count |-> CountWords(text), index |-> index,
     start_char |-> start, end_char |-> start + Len(text)]

ChunksReturned(chunks) == [raised |-> "none", chunks |-> chunks]
ChunksRaised(exc) == [raised |-> exc, chunks |-> <<>>]

\* lines 258-291: the loop creating the Chunk objects, from filtered chunk n on
RECURSIVE BuildChunks(_, _, _, _, _, _)
BuildChunks(text, filtered, n, charPosition, out, source) ==
    IF n > Len(filtered) THEN ChunksReturned(out)
    ELSE IF Strip(filtered[n]) = <<>>
    THEN BuildChunks(text, filtered, n + 1, charPosition, out, source)
    ELSE IF ChunkError(source, Strip(filtered[n]),
                       StartPos(text, Strip(filtered[n]), charPosition),
                       StartPos(text, Strip(filtered[n]), charPosition)
                          + Len(Strip(filtered[n]))) # "none"
    THEN ChunksRaised("ValidationError")
    ELSE BuildChunks(text, filtered, n + 1,
            StartPos(text, Strip(filtered[n]), charPosition) + Len(Strip(filtered[n])),
            Append(out, NewChunk(source, Strip(filtered[n]), n - 1,
                                 StartPos(text, Strip(filtered[n]), charPosition))),
            source)

\* raw_chunks of chunk_text before the overlap step ([] for blank text)
PrimaryChunksOf(text, method, maxWords) ==
    IF Strip(text) = <<>> THEN <<>> ELSE SplitByMethod(Strip(text), method, maxWords)

\* chunk_text from the filter on
ChunkTextFrom(text, raw, source, minWords) ==
    IF Strip(text) = <<>> THEN ChunksReturned(<<>>)
    ELSE BuildChunks(Strip(text), FilterChunks(raw, minWords), 1, 0, <<>>, source)

(***************************************************************************)
(* Input texts: word i is the i-th letter, in lower case, followed by a    *)
(* full stop, or capitalised (after a full stop, where the sentence        *)
(* pattern looks for it); words are separated by a space or a blank line.  *)
(* A few fixed texts add the other shapes the patterns react to.           *)
(***************************************************************************)
\* most words in a generated text
MaxWords == 4

Letters == <<"a", "b", "c", "d", "e", "f", "g", "h">>
Capitals == <<"A", "B", "C", "D", "E", "F", "G", "H">>

WordKinds == {"lower", "capital", "stop"}
SeparatorKinds == {"space", "blank"}

WordOf(i, kind) ==
    CASE kind = "lower"   -> <<Letters[i]>>
      [] kind = "capital" -> <<Capitals[i]>>
      [] OTHER            -> <<Letters[i], ".">>

SeparatorOf(kind) == IF kind = "space" THEN <<" ">> ELSE ParagraphSeparator

SpecialTexts ==
    << <<>>,
       <<" ", "\n", " ">>,
       <<" ", " ", "A", " ", "b", ".", " ", "C", " ", " ">>,
       <<"a", " ", "b", ".", " ", "\"", "C", " ", "d">>,
       <<"a", " ", "b", "!", " ", "C", " ", "d", "?", " ", "E">>,
       <<"a", ".", "b", " ", "c", " ", ".", "D">>,
       <<"a", " ", "\n", " ", "\n", " ", "b", " ", "c">>,
       <<"a", "\n", "b", "\n", "\n", "c">>,
       <<"a", " ", "b", ".", ".", ".", " ", "C">>,
       <<"a", ".", " ", "b", ".", " ", "c">>,
       <<"a", "\n", "\n", "b", "\n", "\n", "c", " ", "d", " ", "e", "\n", "\n", "f">> >>

TInfo(kinds, seps, special) == [kinds |-> kinds, seps |-> seps, special |-> special]

RECURSIVE RenderWords(_, _, _)
RenderWords(kinds, seps, i) ==
    IF i > Len(kinds) THEN <<>>
    ELSE (IF i = 1 THEN <<>> ELSE SeparatorOf(seps[i - 1]))
         \o WordOf(i, kinds[i]) \o RenderWords(kinds, seps, i + 1)

TextOf(info) ==
    IF info.special > 0 THEN SpecialTexts[info.special]
    ELSE RenderWords(info.kinds, info.seps, 1)

\* a capitalised word opens a sentence
KindsFit(kinds) ==
    \A i \in 1..Len(kinds) :
        kinds[i] = "capital" => i > 1 /\ kinds[i - 1] = "stop"

TextInfos ==
    {TInfo(<<>>, <<>>, n) : n \in 1..Len(SpecialTexts)}
    \cup UNION {{TInfo(ks, ss, 0) : ks \in {k \in [1..n -> WordKinds] : KindsFit(k)},
                                     ss \in [1..(n - 1) -> SeparatorKinds]} :
                n \in 1..MaxWords}

\* the window, the minimum and the overlap, scaled down to the size of the texts
MaxChunkSizes == {2, 3}
MinChunkSizes == {1, 2}
ChunkOverlaps == {0, 1, 2}

InitChunk ==
    /\ textInfo \in TextInfos
    /\ chunkInput = TextOf(textInfo)
    /\ chunkMethod \in {"paragraph", "sentence", "word"}
    /\ maxChunkSize \in MaxChunkSizes
    /\ minChunkSize \in MinChunkSizes
    /\ chunkOverlap \in ChunkOverlaps
    /\ sourceId \in {"none", "source"}
    /\ chunkPc = "input"
    /\ primaryChunks = <<>>
    /\ rawChunks = <<>>
    /\ chunkResult = ChunksReturned(<<>>)
    /\ ParseIdle
    /\ ValidIdle
    /\ GenIdle
    /\ CombIdle /\ LaterIdle

\* chunk_text(text, source_id, method)
DoChunk ==
    /\ chunkPc = "input"
    /\ primaryChunks' = PrimaryChunksOf(chunkInput, chunkMethod, maxChunkSize)
    /\ rawChunks' = WithOverlap(primaryChunks', chunkOverlap)
    /\ chunkResult' = ChunkTextFrom(chunkInput, rawChunks', sourceId, minChunkSize)
    /\ chunkPc' = "done"
    /\ UNCHANGED <<textInfo, chunkInput, chunkMethod, maxChunkSize, minChunkSize,
                   chunkOverlap, sourceId>>
    /\ UNCHANGED <<parseVars, validVars, genVars, combVars, laterVars>>

NextChunk == DoChunk

SpecChunk == InitChunk /\ [][NextChunk]_vars

(***************************************************************************)
(* Properties of chunk_text (SpecChunk).                                   *)
(***************************************************************************)
ChunkingDone == chunkPc = "done" /\ chunkResult.raised = "none"

ReturnedChunks == chunkResult.chunks

\* C9: every chunk returned by chunk_text, whatever the method and the text,
\* stays within the window: word_count <= max_chunk_size without overlap,
\* and word_count <= max_chunk_size + chunk_overlap with it.
C9_ChunksStayWithinTheWindow ==
    ChunkingDone =>
        \A n \in 1..Len(ReturnedChunks) :
            ReturnedChunks[n].word_count <= maxChunkSize + chunkOverlap

\* a word without its punctuation: what identifies it in the input
WordKey(word) == SelectSeq(word, LAMBDA c : c \in LowerLetters \cup UpperLetters)

\* the words of a text, in order
WordKeys(s) == [i \in 1..Len(Split(s)) |-> WordKey(Split(s)[i])]

RECURSIVE KeysOfTexts(_, _)
KeysOfTexts(texts, n) ==
    IF n > Len(texts) THEN <<>> ELSE WordKeys(texts[n]) \o KeysOfTexts(texts, n + 1)

InputWords == WordKeys(chunkInput)

\* the words read off the returned chunks in index order
ReturnedWords ==
    KeysOfTexts([n \in 1..Len(ReturnedChunks) |-> ReturnedChunks[n].text], 1)

\* the words of the raw chunks the minimum-size filter dropped
DroppedWords ==
    KeysOfTexts(SelectSeq(rawChunks, LAMBDA c : ~LongEnough(c, minChunkSize)), 1)

Elements(seq) == {seq[i] : i \in 1..Len(seq)}

\* where a word stands in the input
PlaceOf(key, inp) == MinOf({i \in 1..Len(inp) : inp[i] = key})

\* the words out are words of inp at strictly increasing places
InOrderOnce(out, inp) ==
    /\ Elements(out) \subseteq Elements(inp)
    /\ \A i \in 1..(Len(out) - 1) : PlaceOf(out[i], inp) < PlaceOf(out[i + 1], inp)

\* C10: with chunk_overlap = 0 the returned chunks are disjoint in-order
\* pieces of the input: their words, read in index order, are words of the
\* input at strictly increasing places (nothing out of order, nothing in two
\* chunks), and every word of the input not lost with a dropped short chunk
\* is visited.
C10_DisjointPiecesInOrder ==
    (ChunkingDone /\ chunkOverlap = 0) =>
        /\ InOrderOnce(ReturnedWords, InputWords)
        /\ Elements(InputWords) \subseteq
              Elements(ReturnedWords) \cup Elements(DroppedWords)
        /\ \A n \in 1..Len(ReturnedChunks) : ReturnedChunks[n].index = n - 1

\* paragraph chunking without overlap has returned two chunks, the first
\* holding two paragraphs, and dropped a short third chunk
C10_Witness ==
    /\ ChunkingDone /\ chunkOverlap = 0 /\ chunkMethod = "paragraph"
    /\ Len(ReturnedChunks) = 2
    /\ Len(rawChunks) = 3
    /\ Len(InputWords) = 6
    /\ Contains(ReturnedChunks[1].text, ParagraphSeparator)

\* the raw chunks (overlap included) that are shorter than the minimum
ShortChunks == SelectSeq(rawChunks, LAMBDA c : ~LongEnough(c, minChunkSize))

\* the texts chunk_text returned
ReturnedTexts == [n \in 1..Len(ReturnedChunks) |-> ReturnedChunks[n].text]

\* C11: a chunk with fewer than min_chunk_size words is dropped entirely,
\* for every overlap setting: it is not among the returned chunks, and none
\* of its words is found in a returned chunk.
C11_ShortChunksAreDroppedEntirely ==
    ChunkingDone =>
        \A n \in 1..Len(ShortChunks) :
            /\ ShortChunks[n] \notin Elements(ReturnedTexts)
            /\ Elements(WordKeys(ShortChunks[n])) \cap Elements(ReturnedWords) = {}

\* C12: chunk_text never raises, whatever the text, the method and the
\* source_id (the default included), and blank text yields the empty list.
C12_ChunkTextNeverRaises ==
    chunkPc = "done" =>
        /\ chunkResult.raised = "none"
        /\ Strip(chunkInput) = <<>> => chunkResult.chunks = <<>>

(***************************************************************************)
(* SummaryCombiner: the pure parts.                                        *)
(***************************************************************************)
\* str.replace(sub, ""): the text from index i on without the occurrences of sub
RECURSIVE RemoveAllFrom(_, _, _)
RemoveAllFrom(s, sub, i) ==
    IF FindFrom(s, sub, i) = 0 \/ FindFrom(s, sub, i) > Len(s) THEN Drop(s, i)
    ELSE SubSeq(s, i, FindFrom(s, sub, i) - 1)
         \o RemoveAllFrom(s, sub, FindFrom(s, sub, i) + Len(sub))

\* str.replace(sub, "")
RemoveAll(s, sub) == RemoveAllFrom(s, sub, 1)

\* [a-f0-9]
HexChars == Digits \cup {"a", "b", "c", "d", "e", "f"}

\* the lengths of the hexadecimal groups of the UUID pattern, and its length
UuidGroups == <<8, 4, 4, 4, 12>>
UuidLen == 36

\* the dashes of the UUID pattern stand after 8, 13, 18 and 23 characters
UuidAt(s, i) ==
    /\ i + UuidLen - 1 <= Len(s)
    /\ \A k \in 0..(UuidLen - 1) :
          IF k \in {UuidGroups[1], UuidGroups[1] + UuidGroups[2] + 1,
                    UuidGroups[1] + UuidGroups[2] + UuidGroups[3] + 2,
                    UuidGroups[1] + UuidGroups[2] + UuidGroups[3] + UuidGroups[4] + 3}
          THEN s[i + k] = "-" ELSE s[i + k] \in HexChars

\* first index >= i where the UUID pattern matches, 0 when there is none
FindUuid(s, i) ==
    IF {j \in i..Len(s) : UuidAt(s, j)} = {} THEN 0
    ELSE MinOf({j \in i..Len(s) : UuidAt(s, j)})

\* re.sub(uuid pattern, '', s) from index i on
RECURSIVE RemoveUuidsFrom(_, _)
RemoveUuidsFrom(s, i) ==
    IF FindUuid(s, i) = 0 THEN Drop(s, i)
    ELSE SubSeq(s, i, FindUuid(s, i) - 1) \o RemoveUuidsFrom(s, FindUuid(s, i) + UuidLen)

\* lines 242-247: the clean-up of one summary in ai_combine
CleanSummary(s) ==
    Strip(RemoveUuidsFrom(
        Strip(RemoveAll(RemoveAll(RemoveAll(s, <<"#", "#", "#", " ", "S", "u", "m", "m", "a", "r", "y">>), <<"*", "*", "C", "h", "u", "n", "k", " ", "I", "D", ":", "*", "*">>),
                        <<"C", "h", "u", "n", "k", " ", "I", "D", ":">>)), 1))

\* len(cleaned) > 10: "only keep meaningful content"
MeaningfulLen == 10

\* cleaned_summaries
CleanedSummaries(valid) ==
    SelectSeq([n \in 1..Len(valid) |-> CleanSummary(valid[n])],
              LAMBDA c : c # <<>> /\ Len(c) > MeaningfulLen)

\* the mutant of ValidSummaries: "if s" alone, blank summaries count as valid
ValidSummariesKeepsBlank(list) == SelectSeq(list, LAMBDA c : c # <<>>)

\* valid_summaries: [s.strip() for s in summaries if s and s.strip()]
ValidSummaries(list) ==
    SelectSeq([n \in 1..Len(list) |-> Strip(list[n])], LAMBDA c : c # <<>>)

\* str.split(c): the pieces of s from index i on, empty ones included
RECURSIVE SplitOnFrom(_, _, _)
SplitOnFrom(s, c, i) ==
    IF FindChar(s, c, i) = 0 THEN <<Drop(s, i)>>
    ELSE <<SubSeq(s, i, FindChar(s, c, i) - 1)>> \o SplitOnFrom(s, c, FindChar(s, c, i) + 1)

\* sentences: [s.strip() for s in combined.split('.') if s.strip()]
StrippedNonEmpty(pieces) ==
    SelectSeq([n \in 1..Len(pieces) |-> Strip(pieces[n])], LAMBDA c : c # <<>>)

SentencesOf(combined) == StrippedNonEmpty(SplitOnFrom(combined, ".", 1))

\* any(sentence.lower() in existing.lower() for existing in unique_sentences)
AlreadyKept(sentence, unique) ==
    \E n \in 1..Len(unique) : Contains(Lower(unique[n]), Lower(sentence))

\* lines 396-399: unique_sentences, from sentence n on
RECURSIVE UniqueSentences(_, _, _)
UniqueSentences(sentences, n, unique) ==
    IF n > Len(sentences) THEN unique
    ELSE UniqueSentences(sentences, n + 1,
            IF AlreadyKept(sentences[n], unique) THEN unique
            ELSE Append(unique, sentences[n]))

\* line 401: '. '.join(unique_sentences) + ('.' if unique_sentences else '')
JoinSentences(unique) ==
    Join(unique, <<".", " ">>) \o (IF unique # <<>> THEN <<".">> ELSE <<>>)

\* lines 392-401: the concatenation fallback of hybrid_combine
FallbackCombine(valid) ==
    JoinSentences(UniqueSentences(SentencesOf(Join(valid, <<" ">>)), 1, <<>>))

\* an Optional[str]
NoText == [none |-> TRUE, text |-> <<>>]
SomeText(s) == [none |-> FALSE, text |-> s]

\* lines 292-301: what _direct_combine makes of the response content
DirectResult(content) ==
    IF Strip(content) = <<>> THEN NoText
    ELSE SomeText(Strip(RemoveAll(Strip(RemoveAll(Strip(content),
                            <<"C", "o", "m", "b", "i", "n", "e", "d", " ", "F", "i", "n", "a", "l", " ", "S", "u", "m", "m", "a", "r", "y", ":">>)), <<"F", "i", "n", "a", "l", " ", "S", "u", "m", "m", "a", "r", "y", ":">>)))

\* more than this many characters make an AI result valid
MinAiLen == 30

\* line 380: ai_result and len(ai_result.strip()) > 30
AcceptsAiResult(ai) == ~ai.none /\ ai.text # <<>> /\ Len(Strip(ai.text)) > MinAiLen

(***************************************************************************)
(* SummaryCombiner.hybrid_combine with ai_combine, _direct_combine and     *)
(* _hierarchical_combine; every LLM call is a step of its own.             *)
(***************************************************************************)
\* more than this many cleaned summaries are combined hierarchically
DirectLimit == 20

\* group_size of _hierarchical_combine
GroupSize == 8

\* up to this many intermediate summaries are combined directly
MaxIntermediates == 5

\* the two fixed answers for nothing to combine
NoSummariesText == <<"N", "o", " ", "s", "u", "m", "m", "a", "r", "i", "e", "s", " ", "t", "o", " ", "c", "o", "m", "b", "i", "n", "e", ".">>
NoValidSummariesText == <<"N", "o", " ", "v", "a", "l", "i", "d", " ", "s", "u", "m", "m", "a", "r", "i", "e", "s", " ", "f", "o", "u", "n", "d", ".">>

\* a prompt: which call it is and the summaries written into it
Prompt(kind, sections) == [kind |-> kind, sections |-> sections]

\* the group of the current round starting at index i
GroupAt(work, i) == SubSeq(work, i, MinOf({i + GroupSize - 1, Len(work)}))

\* how one chat_completion call of the combiner may end
CombineResponses ==
    << <<"T", "h", "e", " ", "a", "n", "i", "m", "a", "l", "s", " ", "r", "e", "s", "t", ",", " ", "p", "l", "a", "y", " ", "a", "n", "d", " ", "e", "a", "t", ".">>,
       <<"T", "h", "e", " ", "a", "n", "i", "m", "a", "l", "s", " ", "r", "e", "s", "t", ",", " ", "p", "l", "a", "y", " ", "o", "r", " ", "e", "a", "t", ".">>,
       <<"T", "h", "e", " ", "a", "n", "i", "m", "a", "l", "s", " ", "r", "e", "s", "t", ",", " ", "p", "l", "a", "y", " ", "&", " ", "e", "a", "t", ".">>,
       <<>>,
       <<" ", " ", " ">>,
       <<"C", "o", "m", "b", "i", "n", "e", "d", " ", "F", "i", "n", "a", "l", " ", "S", "u", "m", "m", "a", "r", "y", ":", " ", "P", "e", "t", "s", " ", "r", "e", "s", "t", " ", "a", "n", "d", " ", "p", "l", "a", "y", " ", "a", "l", "l", " ", "d", "a", "y", " ", "l", "o", "n", "g", ".">>,
       <<"F", "i", "n", "a", "l", " ", "S", "u", "m", "m", "a", "r", "y", ":">> >>

CombineOutcomes ==
    {Outcome("ok", r) : r \in 1..Len(CombineResponses)} \cup {Outcome("error", 0)}

\* the calls for the groups end with a long, a short or an empty response,
\* or they raise
GroupOutcomes == {Outcome("ok", r) : r \in {1, 3, 4}} \cup {Outcome("error", 0)}

\* lines 324-343: intermediate_summaries after the call of one group
AfterGroupCall(inter, group, outcome) ==
    IF outcome.kind # "ok" THEN Append(inter, Join(group, <<".", " ">>))
    ELSE IF Strip(CombineResponses[outcome.resp]) = <<>> THEN inter
    ELSE Append(inter, Strip(CombineResponses[outcome.resp]))

\* lines 284-304: what _direct_combine returns after its call
AfterDirectCall(outcome) ==
    IF outcome.kind # "ok" THEN NoText
    ELSE DirectResult(CombineResponses[outcome.resp])

\* lines 380-401 for two or more valid summaries: the AI result or the fallback
Conclude(ai, valid) ==
    IF AcceptsAiResult(ai) THEN ai.text ELSE FallbackCombine(valid)

\* Input lists: short lists over a pool of summaries, and long lists of
\* distinct meaningful summaries, one of them followed by a short summary.
SummaryPool ==
    << <<"C", "a", "t", "s", " ", "s", "l", "e", "e", "p", " ", "a", " ", "l", "o", "t", ".">>,
       <<"D", "o", "g", "s", " ", "b", "a", "r", "k", " ", "l", "o", "u", "d", "l", "y", ".">>,
       <<" ", " ">>,
       <<>>,
       <<"S", "h", "o", "r", "t", " ", "o", "n", "e", ".">>,
       <<"C", "h", "u", "n", "k", " ", "I", "D", ":", " ", "B", "i", "r", "d", "s", " ", "c", "a", "n", " ", "f", "l", "y", " ", "f", "a", "r", ".">>,
       <<"c", "a", "t", "s", " ", "s", "l", "e", "e", "p">>,
       <<".", ".", ".">>,
       <<" ", "F", "i", "s", "h", " ", "s", "w", "i", "m", " ", "i", "n", " ", "t", "h", "e", " ", "s", "e", "a", ".", " ">>,
       <<"1", "2", "3", "4", "5", "6", "7", "8", "-", "a", "b", "c", "d", "-", "a", "b", "c", "d", "-", "a", "b", "c", "d", "-", "1", "2", "3", "4", "5", "6", "7", "8", "9", "a", "b", "c", " ", "O", "w", "l", "s", " ", "h", "o", "o", "t", ".">> >>

\* most summaries in a list drawn from the pool
MaxSummaries == 2

DigitChars == <<"0", "1", "2", "3", "4", "5", "6", "7", "8", "9">>

\* the k-th summary of a long list
BulkSummary(k) ==
    <<"F", "a", "c", "t", " ">> \o <<DigitChars[(k \div 10) + 1], DigitChars[(k % 10) + 1]>> \o <<" ", "h", "o", "l", "d", "s", ".">>

\* the lengths of the long lists: around the limit of direct combination
BulkSizes == {DirectLimit, DirectLimit + 1}

SInfo(kind, items, size) == [kind |-> kind, items |-> items, size |-> size]

SummariesOf(info) ==
    [n \in 1..info.size |-> BulkSummary(n)]
    \o [n \in 1..Len(info.items) |-> SummaryPool[info.items[n]]]

SummaryInfos ==
    {SInfo("list", items, 0) : items \in SeqsUpTo(1..Len(SummaryPool), MaxSummaries)}
    \cup {SInfo("bulk", <<>>, n) : n \in BulkSizes}
    \cup {SInfo("bulk", <<5>>, DirectLimit)}

InitCombine ==
    /\ sumInfo \in SummaryInfos
    /\ summaries = SummariesOf(sumInfo)
    /\ useAi \in BOOLEAN
    /\ combPc = "input"
    /\ validSummaries = <<>>
    /\ workSummaries = <<>>
    /\ intermediates = <<>>
    /\ groupStart = 0
    /\ prompts = <<>>
    /\ strategy = "none"
    /\ aiResult = NoText
    /\ combResult = <<>>
    /\ ParseIdle /\ ValidIdle /\ GenIdle /\ ChunkIdle /\ LaterIdle

\* hybrid_combine returns text without a further LLM call
ReturnNow(text, how) ==
    /\ combResult' = text
    /\ strategy' = how
    /\ combPc' = "done"
    /\ UNCHANGED <<workSummaries, intermediates, groupStart, prompts, aiResult>>

\* ai_combine returned ai: hybrid_combine concludes
ReturnAfterAi(ai) ==
    /\ aiResult' = ai
    /\ combResult' = Conclude(ai, validSummaries)
    /\ combPc' = "done"

\* a round of _hierarchical_combine starts on work: the call of its first group
StartRound(work) ==
    /\ workSummaries' = work
    /\ intermediates' = <<>>
    /\ groupStart' = 1
    /\ prompts' = Append(prompts, Prompt("group", GroupAt(work, 1)))
    /\ combPc' = "group"
    /\ UNCHANGED <<aiResult, combResult>>

\* _direct_combine is called on list: its call goes out
StartDirect(list) ==
    /\ prompts' = Append(prompts, Prompt("direct", list))
    /\ combPc' = "direct"
    /\ UNCHANGED <<aiResult, combResult>>

\* lines 251-257 of ai_combine: the strategy for the cleaned summaries
ChooseStrategy(cleaned) ==
    IF Len(cleaned) > DirectLimit
    THEN strategy' = "hierarchical" /\ StartRound(cleaned)
    ELSE /\ strategy' = "direct"
         /\ StartDirect(cleaned)
         /\ UNCHANGED <<workSummaries, intermediates, groupStart>>

\* hybrid_combine up to its first LLM call or its return
CombineStart ==
    /\ combPc = "input"
    /\ validSummaries' = ValidSummaries(summaries)
    /\ IF summaries = <<>> THEN ReturnNow(NoSummariesText, "sentinel")
       ELSE IF validSummaries' = <<>> THEN ReturnNow(NoValidSummariesText, "sentinel")
       ELSE IF useAi /\ Len(validSummaries') > 1
       THEN ChooseStrategy(CleanedSummaries(validSummaries'))
       ELSE IF Len(validSummaries') = 1 THEN ReturnNow(validSummaries'[1], "verbatim")
       ELSE ReturnNow(FallbackCombine(validSummaries'), "concatenate")
    /\ UNCHANGED <<sumInfo, summaries, useAi>>
    /\ UNCHANGED <<parseVars, validVars, genVars, chunkVars, laterVars>>

\* lines 346-354: stage 2 of _hierarchical_combine on its intermediates
StageTwo(inter) ==
    IF Len(inter) = 1
    THEN ReturnAfterAi(SomeText(inter[1]))
         /\ intermediates' = inter
         /\ UNCHANGED <<workSummaries, groupStart, prompts>>
    ELSE IF Len(inter) <= MaxIntermediates
    THEN StartDirect(inter)
         /\ intermediates' = inter
         /\ UNCHANGED <<workSummaries, groupStart>>
    ELSE StartRound(inter)

\* the call of the current group ends: the next group's call, or stage 2
GroupReturns(outcome) ==
    /\ combPc = "group"
    /\ IF groupStart + GroupSize <= Len(workSummaries)
       THEN /\ intermediates' = AfterGroupCall(intermediates,
                                   GroupAt(workSummaries, groupStart), outcome)
            /\ groupStart' = groupStart + GroupSize
            /\ prompts' = Append(prompts,
                  Prompt("group", GroupAt(workSummaries, groupStart + GroupSize)))
            /\ UNCHANGED <<combPc, workSummaries, aiResult, combResult>>
       ELSE StageTwo(AfterGroupCall(intermediates,
                                    GroupAt(workSummaries, groupStart), outcome))
    /\ UNCHANGED <<sumInfo, summaries, useAi, validSummaries, strategy>>
    /\ UNCHANGED <<parseVars, validVars, genVars, chunkVars, laterVars>>

\* the call of _direct_combine ends and hybrid_combine returns
DirectReturns(outcome) ==
    /\ combPc = "direct"
    /\ ReturnAfterAi(AfterDirectCall(outcome))
    /\ UNCHANGED <<sumInfo, summaries, useAi, validSummaries, strategy,
                   workSummaries, intermediates, groupStart, prompts>>
    /\ UNCHANGED <<parseVars, validVars, genVars, chunkVars, laterVars>>

NextCombine ==
    \/ CombineStart
    \/ \E outcome \in GroupOutcomes : GroupReturns(outcome)
    \/ \E outcome \in CombineOutcomes : DirectReturns(outcome)

SpecCombine == InitCombine /\ [][NextCombine]_vars


\* hybrid_combine has passed its first decision, with AI combination asked for
CombineStarted == combPc # "input" /\ useAi

\* the summary stands in the prompt, the chunk markers cleaned away
InPrompt(prompt, summary) ==
    \E n \in 1..Len(prompt.sections) : prompt.sections[n] = CleanSummary(summary)

\* C13: the strategy follows from the number of valid summaries: one is
\* returned verbatim without an LLM call; 2 to 20 are combined directly, by
\* exactly one call whose prompt holds every valid summary; more than 20 are
\* combined hierarchically.
C13_StrategyFromValidCount ==
    CombineStarted =>
        /\ Len(validSummaries) = 1 =>
              /\ strategy = "verbatim"
              /\ combResult = validSummaries[1]
              /\ prompts = <<>>
        /\ Len(validSummaries) \in 2..DirectLimit =>
              /\ strategy = "direct"
              /\ Len(prompts) = 1
              /\ prompts[1].kind = "direct"
              /\ \A n \in 1..Len(validSummaries) : InPrompt(prompts[1], validSummaries[n])
        /\ Len(validSummaries) > DirectLimit => strategy = "hierarchical"


\* hybrid_combine has returned for a list without any valid summary
ReturnedForNoValid ==
    /\ combPc = "done"
    /\ \A n \in 1..Len(summaries) : Strip(summaries[n]) = <<>>

\* C14 as stated: with no valid summary, be the list empty or blank only,
\* one and the same sentinel (that of the empty list) is returned and no
\* LLM call is made.
C14_OneSentinelForNoValid ==
    ReturnedForNoValid => combResult = NoSummariesText /\ prompts = <<>>

\* C14 amended: with no valid summary no LLM call is made, and the result is
\* the fixed answer for the empty list or the fixed answer for the list of
\* blank summaries.
C14_SentinelForEmptyOrBlank ==
    ReturnedForNoValid =>
        /\ prompts = <<>>
        /\ combResult = IF summaries = <<>> THEN NoSummariesText
                        ELSE NoValidSummariesText

\* a list of two blank summaries was answered, AI combination asked for
C14_Witness ==
    /\ ReturnedForNoValid
    /\ useAi
    /\ Len(summaries) = 2
    /\ summaries[1] # summaries[2]
    /\ combResult = NoValidSummariesText


\* hybrid_combine has returned for two or more valid summaries
ReturnedForSeveral == combPc = "done" /\ Len(validSummaries) >= 2

\* C15: with two or more valid summaries the result is the AI-combined text
\* exactly when the AI combination gave an output of at least 30 characters
\* without raising; otherwise it is the de-duplicated concatenation of the
\* valid summaries.
C15_AiTextFromThirtyCharacters ==
    ReturnedForSeveral =>
        IF ~aiResult.none /\ Len(Strip(aiResult.text)) >= MinAiLen
        THEN combResult = aiResult.text
        ELSE combResult = FallbackCombine(validSummaries)


\* C16: when at least one non-empty summary is supplied, hybrid_combine
\* returns a non-empty string, however the LLM calls end and whatever the
\* summaries contain.
C16_SomeSummaryGivesSomeText ==
    (combPc = "done" /\ \E n \in 1..Len(summaries) : summaries[n] # <<>>) =>
        combResult # <<>>


(***************************************************************************)
(* SummaryGenerator.generate_summaries_from_chunks: batches of tasks under *)
(* asyncio.gather, each task a generate_summary_from_chunk.                *)
(***************************************************************************)
\* most chunks in one run: a full batch and a second one
MaxSumChunks == 6

\* "Process max 5 chunks at once"
SumBatchMax == 5

\* what the model may answer when the call succeeds
SummaryResponses ==
    << <<" ", "C", "a", "t", "s", " ", "s", "l", "e", "e", "p", " ", "a", " ", "l", "o", "t", ".", " ">>,
       <<"D", "o", "g", "s", " ", "b", "a", "r", "k", ".">>,
       <<" ", " ">> >>

\* how one chat_completion call of the summary generator may end
SummaryOutcomes ==
    {Outcome("ok", r) : r \in 1..Len(SummaryResponses)} \cup {Outcome("error", 0)}

\* generate_summary_from_chunk from the point where the LLM call ends: the
\* stripped content, or None for blank content and for any exception
SummaryOfOutcome(outcome) ==
    IF outcome.kind # "ok" THEN NoText
    ELSE IF Strip(SummaryResponses[outcome.resp]) = <<>> THEN NoText
    ELSE SomeText(Strip(SummaryResponses[outcome.resp]))

\* batch_size = min(5, len(chunks))
BatchSize == IF sumChunkCount < SumBatchMax THEN sumChunkCount ELSE SumBatchMax

\* the mutant of BatchFrom: every remaining chunk is in the batch
BatchFromAllTheRest(first) == first..sumChunkCount

\* the chunks of the batch starting at chunk first
BatchFrom(first) == first..MinOf({first + BatchSize - 1, sumChunkCount})

\* the mutant of AppendBatchResults: failed generations are left out
AppendBatchResultsDropsFailed(sums, results) ==
    sums \o [j \in 1..Len(SelectSeq(results, LAMBDA r : ~r.none)) |->
                SelectSeq(results, LAMBDA r : ~r.none)[j].text]

\* lines 131-138: one entry per result of the batch, "" for None
AppendBatchResults(sums, results) ==
    sums \o [j \in 1..Len(results) |-> IF results[j].none THEN <<>> ELSE results[j].text]

\* batch_results of the batch starting at chunk first
BatchResults(first) ==
    [j \in 1..Cardinality(BatchFrom(first)) |-> SummaryOfOutcome(sumOutcome[first + j - 1])]

InitSum ==
    /\ sumChunkCount \in 0..MaxSumChunks
    /\ sumPc = "start"
    /\ batchStart = 1
    /\ sumTaskPc = [i \in 1..sumChunkCount |-> "pending"]
    /\ sumOutcome = [i \in 1..sumChunkCount |-> NoOutcome]
    /\ genSummaries = <<>>
    /\ pauses = 0
    /\ EarlierIdle /\ CleanIdle /\ PipeIdle /\ DeckIdle /\ ProcIdle

\* gather starts the tasks of the batch: each builds its prompt and calls the LLM
StartBatch(first) ==
    /\ batchStart' = first
    /\ sumTaskPc' = [i \in 1..sumChunkCount |->
                        IF i \in BatchFrom(first) THEN "inflight" ELSE sumTaskPc[i]]
    /\ sumPc' = "batch"

\* lines 110-112: no chunks, [] is returned
SumNoChunks ==
    /\ sumPc = "start" /\ sumChunkCount = 0
    /\ sumPc' = "done"
    /\ UNCHANGED <<sumChunkCount, batchStart, sumTaskPc, sumOutcome, genSummaries, pauses>>
    /\ UNCHANGED <<earlierVars, cleanVars, pipeVars, deckVars, procVars>>

\* the first batch
SumFirstBatch ==
    /\ sumPc = "start" /\ sumChunkCount > 0
    /\ StartBatch(1)
    /\ UNCHANGED <<sumChunkCount, sumOutcome, genSummaries, pauses>>
    /\ UNCHANGED <<earlierVars, cleanVars, pipeVars, deckVars, procVars>>

\* the awaited call of the task of chunk k ends, and the task with it
SumLlmReturns(k, outcome) ==
    /\ sumPc = "batch" /\ sumTaskPc[k] = "inflight"
    /\ sumOutcome' = [sumOutcome EXCEPT ![k] = outcome]
    /\ sumTaskPc' = [sumTaskPc EXCEPT ![k] = "done"]
    /\ UNCHANGED <<sumChunkCount, sumPc, batchStart, genSummaries, pauses>>
    /\ UNCHANGED <<earlierVars, cleanVars, pipeVars, deckVars, procVars>>

\* gather has every result of the batch: the entries are appended; a pause
\* follows unless this was the last batch
SumGather ==
    /\ sumPc = "batch"
    /\ \A k \in BatchFrom(batchStart) : sumTaskPc[k] = "done"
    /\ genSummaries' = AppendBatchResults(genSummaries, BatchResults(batchStart))
    /\ IF (batchStart - 1) + BatchSize < sumChunkCount
       THEN sumPc' = "pause" /\ pauses' = pauses + 1
       ELSE sumPc' = "done" /\ pauses' = pauses
    /\ UNCHANGED <<sumChunkCount, batchStart, sumTaskPc, sumOutcome>>
    /\ UNCHANGED <<earlierVars, cleanVars, pipeVars, deckVars, procVars>>

\* asyncio.sleep(1) is over: the next batch
SumNextBatch ==
    /\ sumPc = "pause"
    /\ StartBatch(batchStart + BatchSize)
    /\ UNCHANGED <<sumChunkCount, sumOutcome, genSummaries, pauses>>
    /\ UNCHANGED <<earlierVars, cleanVars, pipeVars, deckVars, procVars>>

NextSum ==
    \/ SumNoChunks
    \/ SumFirstBatch
    \/ \E k \in 1..sumChunkCount, outcome \in SummaryOutcomes : SumLlmReturns(k, outcome)
    \/ SumGather
    \/ SumNextBatch

SpecSum == InitSum /\ [][NextSum]_vars

\* the summary of a chunk as its call ended: the stripped text, empty for a
\* blank answer or a failed call
EntryFor(outcome) ==
    IF outcome.kind = "ok" THEN Strip(SummaryResponses[outcome.resp]) ELSE <<>>

\* C17: generate_summaries_from_chunks returns one entry per chunk, in
\* chunk order: the summary of that chunk, or the empty string when its
\* generation gave nothing or raised; no failed chunk is dropped or shifts
\* the others.
C17_OneEntryPerChunkInOrder ==
    sumPc = "done" =>
        /\ Len(genSummaries) = sumChunkCount
        /\ \A i \in 1..sumChunkCount : genSummaries[i] = EntryFor(sumOutcome[i])

\* two batches were returned, with failed and blank chunks before good ones
C17_Witness ==
    /\ sumPc = "done"
    /\ sumChunkCount = MaxSumChunks
    /\ pauses = 1
    /\ sumOutcome[1].kind = "error"
    /\ sumOutcome[2] = Outcome("ok", 3)
    /\ sumOutcome[3] = Outcome("ok", 1)
    /\ sumOutcome[5].kind = "error"
    /\ sumOutcome[6] = Outcome("ok", 2)
    /\ genSummaries[3] # <<>>


(***************************************************************************)
(* TextCleaner.clean_text.  The three characters outside ASCII that the    *)
(* cleaner replaces are single elements of a text, written by name.        *)
(***************************************************************************)
EnDash == "endash"
EmDash == "emdash"
Ellipsis == "ellipsis"

\* regex \w
WordChars == LowerLetters \cup UpperLetters \cup Digits \cup {"_"}

\* regex \b before index p
WordBoundary(s, p) ==
    (p - 1 >= 1 /\ s[p - 1] \in WordChars) # (p <= Len(s) /\ s[p] \in WordChars)

\* (\w+)-\s*\n\s*(\w+) when newline, else (\w+)-\s+(\w+): the index of the
\* hyphen of a match starting at p, 0 when there is none
HyphenAt(s, p) ==
    IF s[p] \in WordChars /\ SkipSet(s, p, WordChars) <= Len(s)
       /\ s[SkipSet(s, p, WordChars)] = "-"
    THEN SkipSet(s, p, WordChars) ELSE 0

\* where the second word of such a match starts, given the hyphen; 0 when
\* the gap or the word is missing
SecondWordAt(s, hyphen, newline) ==
    IF /\ SkipSet(s, hyphen + 1, Whitespace) <= Len(s)
       /\ s[SkipSet(s, hyphen + 1, Whitespace)] \in WordChars
       /\ SkipSet(s, hyphen + 1, Whitespace) > hyphen + 1
       /\ newline => \E j \in (hyphen + 1)..(SkipSet(s, hyphen + 1, Whitespace) - 1) :
                        s[j] = "\n"
    THEN SkipSet(s, hyphen + 1, Whitespace) ELSE 0

\* http[s]?://: the index after the scheme of a URL starting at p, 0 if none
AfterScheme(s, p) ==
    IF MatchAt(s, <<"h", "t", "t", "p", ":", "/", "/">>, p) THEN p + 7
    ELSE IF MatchAt(s, <<"h", "t", "t", "p", "s", ":", "/", "/">>, p) THEN p + 8
    ELSE 0

\* the characters of [a-zA-Z], [0-9], [$-_@.&+], [!*\\(\\),] and %hh
UrlChars ==
    LowerLetters \cup UpperLetters \cup Digits
    \cup {"$", "%", "&", "'", "(", ")", "*", "+", ",", "-", ".", "/", ":", ";",
          "<", "=", ">", "?", "@", "[", "\\", "]", "^", "_", "!"}

\* [A-Za-z0-9._%+-], [A-Za-z0-9.-] and [A-Z|a-z] of the email pattern
EmailLocalChars == LowerLetters \cup UpperLetters \cup Digits \cup {".", "_", "%", "+", "-"}
EmailDomainChars == LowerLetters \cup UpperLetters \cup Digits \cup {".", "-"}
EmailTldChars == LowerLetters \cup UpperLetters \cup {"|"}

\* the ends of the email pattern after the "@" at index at: <<dot, end>> with
\* a domain before the dot and two or more TLD characters up to a boundary
EmailEnds(s, at) ==
    {de \in ((at + 2)..Len(s)) \X ((at + 4)..Len(s)) :
        /\ s[de[1]] = "."
        /\ de[2] >= de[1] + 2
        /\ \A j \in (at + 1)..(de[1] - 1) : s[j] \in EmailDomainChars
        /\ \A j \in (de[1] + 1)..de[2] : s[j] \in EmailTldChars
        /\ WordBoundary(s, de[2] + 1)}

\* greedy matching: the last dot, then the longest TLD
LongestEmailEnd(ends) ==
    MaxOf({de[2] : de \in {x \in ends : x[1] = MaxOf({y[1] : y \in ends})}})

\* the end of an email match starting at p, 0 when there is none
EmailEnd(s, p) ==
    IF /\ WordBoundary(s, p)
       /\ SkipSet(s, p, EmailLocalChars) > p
       /\ SkipSet(s, p, EmailLocalChars) <= Len(s)
       /\ s[SkipSet(s, p, EmailLocalChars)] = "@"
       /\ EmailEnds(s, SkipSet(s, p, EmailLocalChars)) # {}
    THEN LongestEmailEnd(EmailEnds(s, SkipSet(s, p, EmailLocalChars)))
    ELSE 0

\* a run of character c from p on with at least least characters: its end
RunEnd(s, p, c, least) ==
    IF SkipSet(s, p, {c}) - p >= least THEN SkipSet(s, p, {c}) - 1 ELSE 0

\* the end of the match of a pattern starting at index p, 0 when it does
\* not match there
MatchEnd(pat, s, p) ==
    CASE pat = "hyphen_newline" ->
            IF HyphenAt(s, p) = 0 \/ SecondWordAt(s, HyphenAt(s, p), TRUE) = 0 THEN 0
            ELSE SkipSet(s, SecondWordAt(s, HyphenAt(s, p), TRUE), WordChars) - 1
      [] pat = "hyphen_space" ->
            IF HyphenAt(s, p) = 0 \/ SecondWordAt(s, HyphenAt(s, p), FALSE) = 0 THEN 0
            ELSE SkipSet(s, SecondWordAt(s, HyphenAt(s, p), FALSE), WordChars) - 1
      [] pat = "url" ->
            IF AfterScheme(s, p) = 0 \/ SkipSet(s, AfterScheme(s, p), UrlChars) = AfterScheme(s, p)
            THEN 0 ELSE SkipSet(s, AfterScheme(s, p), UrlChars) - 1
      [] pat = "email" -> EmailEnd(s, p)
      [] pat = "special" -> IF s[p] \in {EnDash, EmDash, Ellipsis} THEN p ELSE 0
      [] pat = "dots" -> RunEnd(s, p, ".", 3)
      [] pat = "exclamations" -> RunEnd(s, p, "!", 2)
      [] pat = "questions" -> RunEnd(s, p, "?", 2)
      [] pat = "whitespace" -> IF s[p] \in Whitespace
                            THEN SkipSet(s, p, Whitespace) - 1 ELSE 0
      [] pat = "newlines" -> RunEnd(s, p, "\n", 3)

\* what the match of the pattern from p to e is replaced by
Replacement(pat, s, p, e) ==
    CASE pat = "hyphen_newline" ->
            SubSeq(s, p, HyphenAt(s, p) - 1)
            \o SubSeq(s, SecondWordAt(s, HyphenAt(s, p), TRUE), e)
      [] pat = "hyphen_space" ->
            SubSeq(s, p, HyphenAt(s, p) - 1)
            \o SubSeq(s, SecondWordAt(s, HyphenAt(s, p), FALSE), e)
      [] pat = "url" -> <<" ", "[", "U", "R", "L", "]", " ">>
      [] pat = "email" -> <<" ", "[", "E", "M", "A", "I", "L", "]", " ">>
      [] pat = "special" -> IF s[p] = Ellipsis THEN <<".", ".", ".">> ELSE <<"-">>
      [] pat = "dots" -> <<".", ".", ".">>
      [] pat = "exclamations" -> <<"!">>
      [] pat = "questions" -> <<"?">>
      [] pat = "whitespace" -> <<" ">>
      [] pat = "newlines" -> <<"\n", "\n">>

\* the start of the leftmost match at or after index i, 0 when there is none
FirstMatch(pat, s, i) ==
    IF {p \in i..Len(s) : MatchEnd(pat, s, p) # 0} = {} THEN 0
    ELSE MinOf({p \in i..Len(s) : MatchEnd(pat, s, p) # 0})

\* pattern.sub(replacement, s) from index i on: the matches from left to
\* right, none overlapping, each replaced
RECURSIVE ReSub(_, _, _)
ReSubAt(pat, s, i, p) ==
    IF p = 0 THEN Drop(s, i)
    ELSE SubSeq(s, i, p - 1) \o Replacement(pat, s, p, MatchEnd(pat, s, p))
         \o ReSub(pat, s, MatchEnd(pat, s, p) + 1)

ReSub(pat, s, i) == ReSubAt(pat, s, i, FirstMatch(pat, s, i))


\* fix_hyphenation: the two patterns one after the other
FixHyphenation(text) == ReSub("hyphen_space", ReSub("hyphen_newline", text, 1), 1)

\* remove_urls and remove_emails
RemoveUrls(text) == ReSub("url", text, 1)
RemoveEmails(text) == ReSub("email", text, 1)

\* `word \d+` matches at the start of the line, whatever the case
NumberedAtStart(line, word) ==
    /\ MatchAt(Lower(line), word \o <<" ">>, 1)
    /\ Len(line) >= Len(word) + 2
    /\ line[Len(word) + 2] \in Digits

\* page_artifact_patterns: Page N of M, Page N, a number alone, Chapter N
IsPageArtifact(line) ==
    \/ /\ NumberedAtStart(line, <<"p", "a", "g", "e">>)
       /\ MatchAt(line, <<" ", "o", "f", " ">>, SkipSet(line, 6, Digits))
       /\ SkipSet(line, 6, Digits) + 4 <= Len(line)
       /\ line[SkipSet(line, 6, Digits) + 4] \in Digits
    \/ NumberedAtStart(line, <<"p", "a", "g", "e">>)
    \/ line # <<>> /\ \A n \in 1..Len(line) : line[n] \in Digits
    \/ NumberedAtStart(line, <<"c", "h", "a", "p", "t", "e", "r">>)

\* remove_page_artifacts: blank lines stay, artifact lines go
RemovePageArtifacts(text) ==
    Join(SelectSeq(SplitOnFrom(text, "\n", 1),
                   LAMBDA line : Strip(line) = <<>> \/ ~IsPageArtifact(Strip(line))),
         <<"\n">>)

\* normalize_special_characters (the straight quotes map to themselves)
NormalizeSpecialCharacters(text) == ReSub("special", text, 1)

\* remove_excessive_punctuation
RemoveExcessivePunctuation(text) ==
    ReSub("questions", ReSub("exclamations", ReSub("dots", text, 1), 1), 1)

\* cleaned_lines of normalize_whitespace, from line n on
RECURSIVE CleanedLines(_, _, _, _)
CleanedLines(lines, n, prevEmpty, out) ==
    IF n > Len(lines) THEN out
    ELSE IF lines[n] # <<>> THEN CleanedLines(lines, n + 1, FALSE, Append(out, lines[n]))
    ELSE IF ~prevEmpty THEN CleanedLines(lines, n + 1, TRUE, Append(out, <<>>))
    ELSE CleanedLines(lines, n + 1, prevEmpty, out)

StrippedLines(lines) == [n \in 1..Len(lines) |-> Strip(lines[n])]

\* normalize_whitespace
NormalizeWhitespace(text) ==
    Join(CleanedLines(StrippedLines(SplitOnFrom(
             ReSub("newlines", ReSub("whitespace", text, 1), 1), "\n", 1)),
                      1, FALSE, <<>>),
         <<"\n">>)

\* steps 2, 3 and 7 of clean_text run if configured
IfSet(flag, text, cleaned) == IF flag THEN cleaned ELSE text

AfterUrls(text, st) == IfSet(st.urls, text, RemoveUrls(text))
AfterEmails(text, st) == IfSet(st.email, text, RemoveEmails(text))
AfterWhitespace(text, st) == IfSet(st.whitespace, text, NormalizeWhitespace(text))

\* clean_text(text) with aggressive=False: the cleaned text
CleanText(text, st) ==
    IF text = <<>> \/ Strip(text) = <<>> THEN text
    ELSE Strip(AfterWhitespace(RemoveExcessivePunctuation(NormalizeSpecialCharacters(
             RemovePageArtifacts(AfterEmails(AfterUrls(FixHyphenation(text), st), st)))),
             st))

\* Input texts: up to MaxCleanTokens pieces of CleanTokens in a row, and
\* texts with URLs, addresses, dashes and page lines.
CleanTokens ==
    << <<"a", "b">>, <<"-">>, <<" ">>, <<"\n">>, <<"1">>, <<"C", "h", "a", "p", "t", "e", "r">>, <<"!">>, <<".">> >>

\* most pieces in a generated text
MaxCleanTokens == 3

SpecialCleanTexts ==
    << <<"a", "-", " ", "b", "-", " ", "c">>,
       <<"s", "e", "e", " ", "h", "t", "t", "p", ":", "/", "/", "a", ".", "b", "/", "c", " ", "n", "o", "w">>,
       <<"m", "a", "i", "l", " ", "a", "@", "b", ".", "c", "o", " ", "n", "o", "w">>,
       <<"a", "b">> \o <<EmDash>> \o <<" ", "c", "d">>,
       <<"w", "a", "i", "t">> \o <<Ellipsis>> \o <<".", ".", " ", "w", "h", "a", "t", "?", "?">>,
       <<"I", "n", "t", "r", "o">> \o <<"\n">> \o <<"P", "a", "g", "e", " ", "1", " ", "o", "f", " ", "2">> \o <<"\n">> \o <<"t", "e", "x", "t">>,
       <<" ", " ", "o", "n", "e">> \o <<"\n", "\n", "\n", "\t">> \o <<"t", "w", "o", " ", " ">>,
       <<"3">> \o <<EnDash>>
           \o <<"4", " ", "a", ".", "b", "@", "c", ".", "d", "|", "e", " ", "h", "t", "t", "p", "s", ":", "/", "/", "x">>,
       <<"C", "h", "a", "p", "t", "e", "r">> \o <<"\n">> \o <<"1", " ", "i", "n", "t", "r", "o">> >>

CInfo(kind, items) == [kind |-> kind, items |-> items]

RECURSIVE ConcatTokens(_, _)
ConcatTokens(items, n) ==
    IF n > Len(items) THEN <<>>
    ELSE CleanTokens[items[n]] \o ConcatTokens(items, n + 1)

CleanTextOf(info) ==
    IF info.kind = "special" THEN SpecialCleanTexts[info.items[1]]
    ELSE ConcatTokens(info.items, 1)

CleanInfos ==
    {CInfo("tokens", items) : items \in SeqsUpTo(1..Len(CleanTokens), MaxCleanTokens)}
    \cup {CInfo("special", <<n>>) : n \in 1..Len(SpecialCleanTexts)}

\* settings.text_processing: the defaults, and each step switched off alone
CleanSettings ==
    {st \in [urls : BOOLEAN, email : BOOLEAN, whitespace : BOOLEAN] :
        Cardinality({f \in {"urls", "email", "whitespace"} : ~st[f]}) <= 1}

InitClean ==
    /\ cleanInfo \in CleanInfos
    /\ cleanInput = CleanTextOf(cleanInfo)
    /\ cleanSettings \in CleanSettings
    /\ cleanPc = "input"
    /\ cleanedOnce = <<>>
    /\ cleanedTwice = <<>>
    /\ EarlierIdle /\ SumGenIdle /\ PipeIdle /\ DeckIdle /\ ProcIdle

\* clean_text(text)
CleanOnce ==
    /\ cleanPc = "input"
    /\ cleanedOnce' = CleanText(cleanInput, cleanSettings)
    /\ cleanPc' = "once"
    /\ UNCHANGED <<cleanInfo, cleanInput, cleanSettings, cleanedTwice>>
    /\ UNCHANGED <<earlierVars, sumGenVars, pipeVars, deckVars, procVars>>

\* clean_text applied to the cleaned text
CleanTwice ==
    /\ cleanPc = "once"
    /\ cleanedTwice' = CleanText(cleanedOnce, cleanSettings)
    /\ cleanPc' = "twice"
    /\ UNCHANGED <<cleanInfo, cleanInput, cleanSettings, cleanedOnce>>
    /\ UNCHANGED <<earlierVars, sumGenVars, pipeVars, deckVars, procVars>>

NextClean == CleanOnce \/ CleanTwice

SpecClean == InitClean /\ [][NextClean]_vars

\* C18: cleaning is idempotent: clean_text of an already cleaned text
\* returns it unchanged.
C18_CleaningIsIdempotent ==
    cleanPc = "twice" => cleanedTwice = cleanedOnce


(***************************************************************************)
(* FlashcardPipeline.generate_flashcards: process_text, then one           *)
(* generate_cards_from_chunk per chunk, then the Deck.                     *)
(***************************************************************************)
\* most chunks process_text returns in one run
MaxPipeChunks == 3

InitPipe ==
    /\ pipeFile \in {"present", "missing"}
    /\ pipeChunkCount \in 0..MaxPipeChunks
    /\ pipePc = "input"
    /\ pipeNext = 0
    /\ allCards = <<>>
    /\ deck = <<>>
    /\ EarlierIdle /\ SumGenIdle /\ CleanIdle /\ DeckIdle /\ ProcIdle

\* process_text: the source is cleaned and chunked
PipeProcess ==
    /\ pipePc = "input"
    /\ pipePc' = "chunks"
    /\ pipeNext' = 1
    /\ UNCHANGED <<pipeFile, pipeChunkCount, allCards, deck>>
    /\ UNCHANGED <<earlierVars, sumGenVars, cleanVars, deckVars, procVars>>

\* generate_cards_from_chunk for a chunk whose LLM call, if made, ends with outcome
GenerateCardsFromChunk(file, outcome, chunk) ==
    IF CreateGenerationPrompt(LoadPromptTemplate(file)) # "none"
    THEN Handled(CreateGenerationPrompt(LoadPromptTemplate(file)))
    ELSE AfterLlmCall(outcome, chunk)

\* lines 69-80: all_cards after the chunk; an exception skips the chunk
ExtendCards(cards, result) ==
    IF result.exc = "none" THEN cards \o result.cards ELSE cards

\* one round of the loop over the chunks
PipeChunk(outcome) ==
    /\ pipePc = "chunks"
    /\ pipeNext <= pipeChunkCount
    /\ allCards' = ExtendCards(allCards, GenerateCardsFromChunk(pipeFile, outcome, pipeNext))
    /\ pipeNext' = pipeNext + 1
    /\ UNCHANGED <<pipeFile, pipeChunkCount, pipePc, deck>>
    /\ UNCHANGED <<earlierVars, sumGenVars, cleanVars, deckVars, procVars>>

\* lines 82-91: the Deck is built from all_cards and returned
PipeDeck ==
    /\ pipePc = "chunks"
    /\ pipeNext > pipeChunkCount
    /\ deck' = allCards
    /\ pipePc' = "done"
    /\ UNCHANGED <<pipeFile, pipeChunkCount, pipeNext, allCards>>
    /\ UNCHANGED <<earlierVars, sumGenVars, cleanVars, deckVars, procVars>>

NextPipe ==
    \/ PipeProcess
    \/ \E outcome \in LlmOutcomes : PipeChunk(outcome)
    \/ PipeDeck

SpecPipe == InitPipe /\ [][NextPipe]_vars

\* C19: every card of the Deck a pipeline run returns is a validated card:
\* front of at least 10 characters, back of at least 5, and passed by the
\* validation rules.
C19_DeckHoldsValidatedCardsOnly ==
    pipePc = "done" =>
        \A n \in 1..Len(deck) :
            /\ Len(deck[n].front) >= MinFrontLen
            /\ Len(deck[n].back) >= MinBackLen
            /\ KeepsCard(deck[n])


(***************************************************************************)
(* Deck: add_card, add_cards and remove_duplicates on a Deck that starts   *)
(* empty.                                                                  *)
(***************************************************************************)
\* most cards in the deck
MaxDeckCards == 3

\* most cards in one add_cards call
MaxAddCards == 2

DeckCard(front, source) ==
    [front |-> front, back |-> <<"A", "n", "s", "w", "e", "r">>, source_id |-> source]

\* the cards offered: two fronts equal up to case, a third one, each from no
\* source or from one of two
DeckCardPool ==
    {DeckCard(front, source) :
        front \in {<<"Q", " ", "o", "n", "e", "?">>, <<"q", " ", "O", "N", "E", "?">>, <<"Q", " ", "t", "w", "o", "?">>},
        source \in {"none", "s1", "s2"}}

InitDeck ==
    /\ deckCards = <<>>
    /\ deckSourceIds = <<>>
    /\ EarlierIdle /\ SumGenIdle /\ CleanIdle /\ PipeIdle /\ ProcIdle

\* Deck.add_card: the deck [cards, source_ids] after the call
AddCard(d, card) ==
    [cards |-> Append(d.cards, card),
     source_ids |-> IF card.source_id # "none" /\ card.source_id \notin Elements(d.source_ids)
                    THEN Append(d.source_ids, card.source_id)
                    ELSE d.source_ids]

\* Deck.add_cards: add_card for each card, from card n on
RECURSIVE AddCards(_, _, _)
AddCards(d, cards, n) ==
    IF n > Len(cards) THEN d ELSE AddCards(AddCard(d, cards[n]), cards, n + 1)

\* card_key of remove_duplicates
CardKey(card) == <<Strip(Lower(card.front)), Strip(Lower(card.back))>>

\* unique_cards of remove_duplicates, from card n on
RECURSIVE UniqueCards(_, _, _, _)
UniqueCards(cards, n, seen, unique) ==
    IF n > Len(cards) THEN unique
    ELSE IF CardKey(cards[n]) \in seen THEN UniqueCards(cards, n + 1, seen, unique)
    ELSE UniqueCards(cards, n + 1, seen \cup {CardKey(cards[n])}, Append(unique, cards[n]))

DoAddCard(card) ==
    /\ Len(deckCards) < MaxDeckCards
    /\ deckCards' = AddCard([cards |-> deckCards, source_ids |-> deckSourceIds], card).cards
    /\ deckSourceIds' =
          AddCard([cards |-> deckCards, source_ids |-> deckSourceIds], card).source_ids
    /\ UNCHANGED <<earlierVars, sumGenVars, cleanVars, pipeVars, procVars>>

DoAddCards(cards) ==
    /\ Len(deckCards) + Len(cards) <= MaxDeckCards
    /\ deckCards' = AddCards([cards |-> deckCards, source_ids |-> deckSourceIds], cards, 1).cards
    /\ deckSourceIds' =
          AddCards([cards |-> deckCards, source_ids |-> deckSourceIds], cards, 1).source_ids
    /\ UNCHANGED <<earlierVars, sumGenVars, cleanVars, pipeVars, procVars>>

\* Deck.remove_duplicates: self.cards = unique_cards, nothing else changes
DoRemoveDuplicates ==
    /\ deckCards' = UniqueCards(deckCards, 1, {}, <<>>)
    /\ UNCHANGED deckSourceIds
    /\ UNCHANGED <<earlierVars, sumGenVars, cleanVars, pipeVars, procVars>>

NextDeck ==
    \/ \E card \in DeckCardPool : DoAddCard(card)
    \/ \E cards \in SeqsUpTo(DeckCardPool, MaxAddCards) : DoAddCards(cards)
    \/ DoRemoveDuplicates

SpecDeck == InitDeck /\ [][NextDeck]_vars

\* C20: after any sequence of add_card, add_cards and remove_duplicates
\* calls, source_ids holds no duplicate and is exactly the set of source
\* identifiers of the cards in the deck.
C20_SourceIdsAreThoseOfTheCards ==
    /\ \A m, n \in 1..Len(deckSourceIds) : deckSourceIds[m] = deckSourceIds[n] => m = n
    /\ Elements(deckSourceIds) =
          {deckCards[n].source_id : n \in 1..Len(deckCards)} \ {"none"}


(***************************************************************************)
(* FlashcardPipeline.process_text on a Source: the content is cleaned with *)
(* the default cleaner settings and chunked by paragraphs.                 *)
(***************************************************************************)
\* most process_text calls on one Source
MaxProcessRuns == 2

\* the texts a Source is loaded with
ProcessInfos ==
    {[from |-> "chunker", info |-> info] : info \in TextInfos}
    \cup {[from |-> "cleaner", info |-> CInfo("special", <<n>>)] :
             n \in 1..Len(SpecialCleanTexts)}

ProcessTextOf(info) ==
    IF info.from = "chunker" THEN TextOf(info.info) ELSE CleanTextOf(info.info)

\* remove_urls, remove_email and normalize_whitespace default to True
DefaultCleanSettings == [urls |-> TRUE, email |-> TRUE, whitespace |-> TRUE]

\* chunk_text(text, source_id=source.id) with the default method "paragraph"
ChunkText(text, st) ==
    ChunkTextFrom(text,
                  WithOverlap(PrimaryChunksOf(text, "paragraph", st.max), st.overlap),
                  "source", st.min)

InitProcess ==
    /\ procInfo \in ProcessInfos
    /\ loadedContent = ProcessTextOf(procInfo)
    /\ sourceContent = loadedContent
    /\ procSettings \in [max : MaxChunkSizes, min : MinChunkSizes, overlap : ChunkOverlaps]
    /\ procRuns = 0
    /\ procChunks = ChunksReturned(<<>>)
    /\ EarlierIdle /\ SumGenIdle /\ CleanIdle /\ PipeIdle /\ DeckIdle

\* process_text(source): the cleaned text is assigned to source.content and
\* chunked
ProcessText ==
    /\ procRuns < MaxProcessRuns
    /\ sourceContent' = CleanText(sourceContent, DefaultCleanSettings)
    /\ procChunks' = ChunkText(sourceContent', procSettings)
    /\ procRuns' = procRuns + 1
    /\ UNCHANGED <<procInfo, loadedContent, procSettings>>
    /\ UNCHANGED <<earlierVars, sumGenVars, cleanVars, pipeVars, deckVars>>

NextProcess == ProcessText

SpecProcess == InitProcess /\ [][NextProcess]_vars

\* C21: processing leaves the content of the Source unchanged: after any
\* number of process_text calls the Source holds the text it was loaded with.
C21_ProcessingKeepsTheLoadedContent ==
    sourceContent = loadedContent


(***************************************************************************)
(* The order of the parser's stages.                                       *)
(***************************************************************************)
\* what each stage makes of the text handed to the stages
DirectParses == JsonLoads(JsonTextOf(response)).ok
RecoversCards == Truthy(ParseTruncatedJson(JsonTextOf(response)))
RepairParses == JsonLoads(FixJsonFormat(JsonTextOf(response))).ok

\* C22: the stages run in the order direct parse, recovery of complete
\* cards, repair; the data comes from the first stage that succeeds: from
\* the recovery only if the direct parse failed, from the repair only if
\* the recovery found nothing as well; when no stage yields an object the
\* call returns the empty list
C22_FirstSuccessfulStageDecides ==
    parsePc = "done" =>
        /\ parseResult.stage = 1 <=> DirectParses
        /\ parseResult.stage = 2 <=> ~DirectParses /\ RecoversCards
        /\ parseResult.stage = 3 <=> ~DirectParses /\ ~RecoversCards /\ RepairParses
        /\ parseResult.stage = 1 =>
               parseResult.data = JsonLoads(JsonTextOf(response)).val
        /\ parseResult.stage = 2 =>
               parseResult.data = ParseTruncatedJson(JsonTextOf(response))
        /\ parseResult.stage = 3 =>
               parseResult.data = JsonLoads(FixJsonFormat(JsonTextOf(response))).val
        /\ (parseResult.stage = 0 \/ parseResult.data.t # "dict") =>
               /\ ~parseResult.raised
               /\ parseResult.cards = <<>>

\* a response whose direct parse fails, from which nothing is recovered, and
\* whose repaired text yields the object the cards are built from
C22_Witness ==
    /\ parsePc = "done"
    /\ parseResult.stage = 3
    /\ parseResult.data.t = "dict"
    /\ parseResult.cards # <<>>


(***************************************************************************)
(* A paragraph longer than the window (SpecChunk, method "paragraph").     *)
(***************************************************************************)
\* the paragraphs split_by_paragraphs sees
ParagraphsOf(text) == ParagraphPieces(text, 1, 1)

HasLongParagraph(text, maxWords) ==
    \E n \in 1..Len(ParagraphsOf(text)) : CountWords(ParagraphsOf(text)[n]) > maxWords

\* the words of a list of texts, punctuation included, in order
RECURSIVE WordsOfTexts(_, _)
WordsOfTexts(texts, n) ==
    IF n > Len(texts) THEN <<>> ELSE Split(texts[n]) \o WordsOfTexts(texts, n + 1)

\* C23: when a paragraph alone exceeds max_words, the chunk built so far is
\* emitted first and the paragraph is split by sentences; the primary chunks
\* then hold every word of the text, sentence-ending punctuation included,
\* exactly once and in the original order
C23_LongParagraphKeepsEveryWord ==
    (chunkPc = "done" /\ chunkMethod = "paragraph"
        /\ HasLongParagraph(chunkInput, maxChunkSize)) =>
        WordsOfTexts(primaryChunks, 1) = Split(chunkInput)


(***************************************************************************)
(* The overlap step (SpecChunk).                                           *)
(***************************************************************************)
\* the last k words of a list of words
LastWords(words, k) == SubSeq(words, Len(words) - k + 1, Len(words))

\* min(overlap_words, number of words of the chunk)
OverlapCount(chunk, overlapWords) ==
    IF Len(Split(chunk)) < overlapWords THEN Len(Split(chunk)) ELSE overlapWords

\* C24: with overlap_words > 0 the first chunk is unchanged, and every later
\* chunk is the last min(overlap_words, words of the primary chunk before it)
\* words of that primary chunk, then a space and the text of its own primary
\* chunk; the chunks are as many as before and in the same order
C24_OverlapPrependsTheLastWords ==
    (chunkPc = "done" /\ chunkOverlap > 0) =>
        /\ Len(rawChunks) = Len(primaryChunks)
        /\ \A i \in 1..Len(primaryChunks) :
              IF i = 1 THEN rawChunks[i] = primaryChunks[i]
              ELSE /\ Len(rawChunks[i]) > Len(primaryChunks[i])
                   /\ Drop(rawChunks[i], Len(rawChunks[i]) - Len(primaryChunks[i]))
                         = <<" ">> \o primaryChunks[i]
                   /\ Split(Take(rawChunks[i],
                                 Len(rawChunks[i]) - Len(primaryChunks[i]) - 1))
                         = LastWords(Split(primaryChunks[i - 1]),
                                     OverlapCount(primaryChunks[i - 1], chunkOverlap))

\* three primary chunks under an overlap of two words: one chunk follows a
\* chunk of three words, another follows a chunk of at most two
C24_Witness ==
    /\ chunkPc = "done" /\ chunkOverlap = 2
    /\ Len(primaryChunks) >= 3
    /\ \E i \in 1..(Len(primaryChunks) - 1) : Len(Split(primaryChunks[i])) > chunkOverlap
    /\ \E i \in 1..(Len(primaryChunks) - 1) : Len(Split(primaryChunks[i])) <= chunkOverlap
    /\ rawChunks # primaryChunks


(***************************************************************************)
(* The character spans of the returned chunks (SpecChunk).                 *)
(***************************************************************************)
\* C25: every returned chunk carries a span inside the text it was cut
\* from, 0 <= start_char < end_char <= length of the text, for every overlap
\* setting and every method
C25_SpansLieInsideTheText ==
    ChunkingDone =>
        \A n \in 1..Len(ReturnedChunks) :
            /\ 0 <= ReturnedChunks[n].start_char
            /\ ReturnedChunks[n].start_char < ReturnedChunks[n].end_char
            /\ ReturnedChunks[n].end_char <= Len(chunkInput)


(***************************************************************************)
(* Paragraph breaks under cleaning (SpecProcess).                          *)
(***************************************************************************)
\* the paragraphs of a text that hold a word
NonBlankParagraphs(text) == SelectSeq(ParagraphsOf(text), LAMBDA p : Strip(p) # <<>>)

\* the words of each such paragraph
ParagraphWords(text) ==
    [n \in 1..Len(NonBlankParagraphs(text)) |-> Split(NonBlankParagraphs(text)[n])]

\* C26: whitespace normalisation keeps the paragraph breaks: the paragraphs
\* of the normalised text are those of the loaded text, word for word, and
\* the cleaned text the chunker is given has as many paragraphs as the
\* loaded text
C26_CleaningKeepsTheParagraphs ==
    procRuns = 1 =>
        /\ ParagraphWords(NormalizeWhitespace(loadedContent))
              = ParagraphWords(loadedContent)
        /\ Len(NonBlankParagraphs(sourceContent))
              = Len(NonBlankParagraphs(loadedContent))


(***************************************************************************)
(* The merge pass of the hierarchical combination (SpecCombine).           *)
(***************************************************************************)
\* the number of groups of n summaries
GroupCount(n) == (n + GroupSize - 1) \div GroupSize

\* the merge calls issued so far
GroupPrompts == SelectSeq(prompts, LAMBDA p : p.kind = "group")

\* the merge pass is over
StageOneDone == strategy = "hierarchical" /\ combPc \in {"direct", "done"}

\* C27: more than 20 summaries are merged in consecutive groups of 8 taken
\* in order, by one merge call per group, and each group gives exactly one
\* intermediate summary; the pass is followed by a single direct combine
\* over the intermediates
C27_OneIntermediatePerGroup ==
    strategy = "hierarchical" =>
        /\ Len(workSummaries) > DirectLimit
        /\ \A g \in 1..Len(GroupPrompts) :
              GroupPrompts[g].sections
                 = GroupAt(workSummaries, (g - 1) * GroupSize + 1)
        /\ StageOneDone =>
              /\ Len(GroupPrompts) = GroupCount(Len(workSummaries))
              /\ Len(intermediates) = GroupCount(Len(workSummaries))
              /\ Len(prompts) = GroupCount(Len(workSummaries)) + 1
              /\ prompts[Len(prompts)] = Prompt("direct", intermediates)


(***************************************************************************)
(* SpecAi: ai_combine called on a list of summaries; its LLM calls return  *)
(* one after the other, and the call returns aiResult.                     *)
(***************************************************************************)
\* the lengths of the long lists: one merge pass, and two
HierSizes == {DirectLimit + 1, 2 * DirectLimit + 1}

AiInfos ==
    {SInfo("list", items, 0) : items \in SeqsUpTo(1..Len(SummaryPool), MaxSummaries)}
    \cup {SInfo("bulk", <<>>, n) : n \in HierSizes}

InitAi ==
    /\ sumInfo \in AiInfos
    /\ summaries = SummariesOf(sumInfo)
    /\ useAi = TRUE
    /\ combPc = "input"
    /\ validSummaries = <<>>
    /\ workSummaries = <<>>
    /\ intermediates = <<>>
    /\ groupStart = 0
    /\ prompts = <<>>
    /\ strategy = "none"
    /\ aiResult = NoText
    /\ combResult = <<>>
    /\ ParseIdle /\ ValidIdle /\ GenIdle /\ ChunkIdle /\ LaterIdle

\* ai_combine returns ai
AiReturn(ai) ==
    /\ aiResult' = ai
    /\ combPc' = "done"
    /\ UNCHANGED combResult

\* lines 226-257: ai_combine up to its first LLM call or its return
AiCombineStart ==
    /\ combPc = "input"
    /\ validSummaries' = ValidSummaries(summaries)
    /\ IF summaries = <<>>
       THEN /\ AiReturn(SomeText(NoSummariesText)) /\ strategy' = "sentinel"
            /\ UNCHANGED <<workSummaries, intermediates, groupStart, prompts>>
       ELSE IF validSummaries' = <<>>
       THEN /\ AiReturn(SomeText(NoValidSummariesText)) /\ strategy' = "sentinel"
            /\ UNCHANGED <<workSummaries, intermediates, groupStart, prompts>>
       ELSE IF Len(validSummaries') = 1
       THEN /\ AiReturn(SomeText(validSummaries'[1])) /\ strategy' = "verbatim"
            /\ UNCHANGED <<workSummaries, intermediates, groupStart, prompts>>
       ELSE ChooseStrategy(CleanedSummaries(validSummaries'))
    /\ UNCHANGED <<sumInfo, summaries, useAi>>
    /\ UNCHANGED <<parseVars, validVars, genVars, chunkVars, laterVars>>

\* lines 346-354: stage 2 of _hierarchical_combine on its intermediates
AiStageTwo(inter) ==
    IF Len(inter) = 1
    THEN AiReturn(SomeText(inter[1]))
         /\ intermediates' = inter
         /\ UNCHANGED <<workSummaries, groupStart, prompts>>
    ELSE IF Len(inter) <= MaxIntermediates
    THEN StartDirect(inter)
         /\ intermediates' = inter
         /\ UNCHANGED <<workSummaries, groupStart>>
    ELSE StartRound(inter)

\* lines 313-343: the call of the current group ends
AiGroupReturns(outcome) ==
    /\ combPc = "group"
    /\ IF groupStart + GroupSize <= Len(workSummaries)
       THEN /\ intermediates' = AfterGroupCall(intermediates,
                                   GroupAt(workSummaries, groupStart), outcome)
            /\ groupStart' = groupStart + GroupSize
            /\ prompts' = Append(prompts,
                  Prompt("group", GroupAt(workSummaries, groupStart + GroupSize)))
            /\ UNCHANGED <<combPc, workSummaries, aiResult, combResult>>
       ELSE AiStageTwo(AfterGroupCall(intermediates,
                                      GroupAt(workSummaries, groupStart), outcome))
    /\ UNCHANGED <<sumInfo, summaries, useAi, validSummaries, strategy>>
    /\ UNCHANGED <<parseVars, validVars, genVars, chunkVars, laterVars>>

\* lines 284-304: the call of _direct_combine ends and ai_combine returns
AiDirectReturns(outcome) ==
    /\ combPc = "direct"
    /\ AiReturn(AfterDirectCall(outcome))
    /\ UNCHANGED <<sumInfo, summaries, useAi, validSummaries, strategy,
                   workSummaries, intermediates, groupStart, prompts>>
    /\ UNCHANGED <<parseVars, validVars, genVars, chunkVars, laterVars>>

NextAi ==
    \/ AiCombineStart
    \/ \E outcome \in GroupOutcomes : AiGroupReturns(outcome)
    \/ \E outcome \in CombineOutcomes : AiDirectReturns(outcome)

SpecAi == InitAi /\ [][NextAi]_vars

\* the work ai_combine has left: the summaries still to be merged in this
\* pass and the intermediates to be combined after it
WorkLeft ==
    CASE combPc = "done"   -> 0
      [] combPc = "direct" -> 1
      [] combPc = "group"  -> 2 + (Len(workSummaries) - groupStart + 1)
                                + (GroupSize - 1) * Len(intermediates)
      [] OTHER             -> 3 + Len(summaries)

\* ai_combine has returned from the hierarchical combination
HierarchicalDone == strategy = "hierarchical" /\ combPc = "done"

\* the last LLM call was a direct combine over the remaining intermediates
EndsWithDirectCombine ==
    /\ Len(intermediates) <= MaxIntermediates
    /\ prompts # <<>>
    /\ prompts[Len(prompts)] = Prompt("direct", intermediates)

\* C28: the hierarchical combination terminates, repeating the merge pass
\* while more than 5 intermediates remain, and its result always comes from
\* a direct-combine call over the at most 5 intermediates that remain.
\* Termination: every step of ai_combine lowers WorkLeft, a natural number
\* that is 0 exactly when the call has returned.
C28_EndsWithADirectCombine ==
    /\ [][WorkLeft' < WorkLeft]_vars
    /\ [](HierarchicalDone => EndsWithDirectCombine)


(***************************************************************************)
(* Requests in flight (SpecGenFair).                                       *)
(***************************************************************************)
\* the event loop runs every task that can run; a sleep ends, and an awaited
\* chat completion returns or raises
SpecGenFair == SpecGen /\ WF_vars(NextGen)

\* the chunks whose request is awaited
InFlight == {i \in Chunks : taskPc[i] = "inflight"}

\* at most max_concurrent requests at a time in batch mode, one in
\* sequential mode, where a request goes out after those of the chunks before
InFlightBounded ==
    /\ genMode = "batch" => Cardinality(InFlight) <= maxConcurrent
    /\ genMode = "sequential" =>
          /\ Cardinality(InFlight) <= 1
          /\ \A i \in requested : \A j \in 1..(i - 1) :
                j \in requested /\ taskPc[j] = "done"

\* a request that went out is not forgotten, one that ended is not repeated
RequestedOnce ==
    /\ requested \subseteq requested'
    /\ \A i \in Chunks : taskPc[i] = "done" => taskPc'[i] = "done"

\* every chunk's request went out and has ended
AllRequestsFinished == \A i \in Chunks : i \in requested /\ taskPc[i] = "done"

\* C29: in batch mode at most max_concurrent chunk requests are in flight
\* under every interleaving of the tasks, in sequential mode at most one and
\* in chunk order; every chunk's request is eventually started and finished,
\* exactly once
C29_BoundedRequestsAllServed ==
    /\ []InFlightBounded
    /\ [][RequestedOnce]_vars
    /\ <>AllRequestsFinished


(***************************************************************************)
(* The batches of the summary generator (SpecSum).                         *)
(***************************************************************************)
\* min(5, n)
SumLimit == MinOf({SumBatchMax, sumChunkCount})

\* the chunks whose summary request is awaited
SumInFlight == {k \in 1..sumChunkCount : sumTaskPc[k] = "inflight"}

\* the chunks before the current batch have ended, those after it wait
BatchesInTurn ==
    \A k \in 1..sumChunkCount :
        CASE sumPc = "start" -> sumTaskPc[k] = "pending"
          [] sumPc = "batch" ->
                /\ (batchStart - 1) % SumLimit = 0
                /\ k < batchStart => sumTaskPc[k] = "done"
                /\ k >= batchStart + SumLimit => sumTaskPc[k] = "pending"
                /\ (batchStart <= k /\ k < batchStart + SumLimit)
                      => sumTaskPc[k] \in {"inflight", "done"}
          [] sumPc = "pause" ->
                /\ batchStart + SumLimit <= sumChunkCount
                /\ sumTaskPc[k] = (IF k < batchStart + SumLimit THEN "done" ELSE "pending")
          [] OTHER -> sumTaskPc[k] = "done"

\* one pause after every batch but the last
PausesBetweenBatches ==
    sumChunkCount > 0 =>
        CASE sumPc = "start" -> pauses = 0
          [] sumPc = "batch" -> pauses = (batchStart - 1) \div SumLimit
          [] sumPc = "pause" -> pauses = (batchStart - 1) \div SumLimit + 1
          [] OTHER -> pauses = (sumChunkCount + SumLimit - 1) \div SumLimit - 1

\* requests start at the start and after a pause only, and the call returns
\* from a batch, not from a pause
StartsAfterThePause ==
    /\ (\E k \in 1..sumChunkCount :
           sumTaskPc[k] = "pending" /\ sumTaskPc'[k] = "inflight")
          => sumPc \in {"start", "pause"}
    /\ (sumPc # "done" /\ sumPc' = "done") => sumPc \in {"start", "batch"}

\* C30: n chunks are processed in consecutive batches of min(5, n); at most
\* min(5, n) summary requests are in flight; the requests of a batch start
\* only after every request of the batch before has finished and the pause
\* has elapsed; there is a pause between batches and none after the last
C30_BatchesOfFiveWithPauses ==
    /\ [](Cardinality(SumInFlight) <= SumLimit)
    /\ []BatchesInTurn
    /\ []PausesBetweenBatches
    /\ [][StartsAfterThePause]_vars

\* the second batch of six chunks is in flight after the one pause
C30_Witness ==
    /\ sumChunkCount = 6 /\ sumPc = "batch" /\ batchStart = 6
    /\ SumInFlight = {6}
    /\ pauses = 1

====
